---- MODULE Spec2Model ----
(***************************************************************************)
(* Augmented Research Assistant: a model of the disk-backed cache manager, *)
(* the vector store service, the RAG chain and the Streamlit script that   *)
(* wires them together.                                                    *)
(*                                                                         *)
(* Text that the code concatenates or converts (questions, the document    *)
(* count fingerprint, cache keys) is a sequence of one-character strings,  *)
(* so that str(), the f-string key and the path of a cache file are        *)
(* computed as the code computes them; so are file names, whose suffix    *)
(* the document processor takes.  Opaque values (session identifiers,     *)
(* answers) are TLA+ strings.                                              *)
(***************************************************************************)
EXTENDS Naturals, Integers, Sequences, FiniteSets, TLC

VARIABLES
    api_key,        \* config.GOOGLE_API_KEY is set (settings.py:16,51)
    enable_caching, \* config.ENABLE_CACHING (settings.py:46)
    clock,          \* time.time(), in seconds
    cache_files,    \* the .pkl files under .cache/: path -> [data, mtime]
    managers,       \* the CacheManager objects constructed so far
    ticks,          \* how many times the clock was advanced
    cm_log,         \* the cache manager call made by the last step
    cm_puts         \* the caller's record of its cache_query calls that
                    \* returned True: <<query, doc_hash>> -> [result, at],
                    \* emptied when it clears the query cache

VARIABLES
    services,       \* "none", or "built" once the service objects exist
    vs,             \* the VectorStoreService object: [embeddings, vector_store]
    collection,     \* the chunks of the session's Chroma collection, in order
    rag,            \* the RAGChain object: [llm, chain, cache_manager]
    q_log,          \* what the last RAGChain.query call did and returned
    vs_log          \* the last call made on the vector store by its direct
                    \* caller, and the caller's record `cleared`: a
                    \* clear_collection of a collection with chunks has
                    \* returned True and no add_documents has returned True
                    \* since

cache_vars == <<enable_caching, clock, ticks, cache_files, managers, cm_log,
                cm_puts>>

VARIABLES
    env,            \* what the client constructors of this process do,
                    \* and whether os.getlogin() finds a login name:
                    \* [emb_ok, store_ok, llm_ok, login_ok]
    ss,             \* st.session_state of the browser session
    uploader,       \* the files the st.file_uploader widget holds
    screen,         \* what the last script run rendered
    rerun_pending,  \* the last script run ended in st.rerun()
    run_log         \* what the last script run did

VARIABLES
    dp_calls,       \* how many files the document processor was given
    tmp_files,      \* the temporary files on disk that the processor made
    dp_log          \* what the last process_uploaded_file call did

VARIABLES
    dep_env,        \* what the deployment helper finds on the machine
    dep             \* the run of deploy.py: [pc, ran, results, dirs,
                    \* launched, exited, status]

VARIABLES
    proc_env,       \* what a Python process of the repository finds:
                    \* [entry, sqlite_version, pysqlite3]
    proc,           \* the process: [pc, loaded, sqlite3, fix_calls, fix_log,
                    \* storage_opens, fixes_before_open]
    tabs            \* the browser sessions that share the process, when
                    \* there are several: session -> [ss, uploader, screen,
                    \* rerun_pending, pending]

rag_vars == <<services, vs, collection, rag, q_log, vs_log>>

proc_vars == <<proc_env, proc>>

tool_vars == <<dp_calls, tmp_files, dp_log, dep_env, dep, proc_vars, tabs>>

app_vars == <<env, ss, uploader, screen, rerun_pending, run_log>>

vars == <<api_key, cache_vars, rag_vars, app_vars, tool_vars>>

----------------------------------------------------------------------------
(* Python values *)

\* None
PyNone == [kind |-> "None"]

\* True / False as returned by the put and clear operations
PyBool(b) == [kind |-> "bool", val |-> b]

\* str(n) for a non-negative int: its decimal digits
Digit(d) ==
    CASE d = 0 -> "0" [] d = 1 -> "1" [] d = 2 -> "2" [] d = 3 -> "3"
      [] d = 4 -> "4" [] d = 5 -> "5" [] d = 6 -> "6" [] d = 7 -> "7"
      [] d = 8 -> "8" [] d = 9 -> "9"

RECURSIVE Str(_)
Str(n) == IF n < 10 THEN <<Digit(n)>> ELSE Str(n \div 10) \o <<Digit(n % 10)>>

----------------------------------------------------------------------------
(* config/settings.py *)

CACHE_TTL == 3600

----------------------------------------------------------------------------
(* Bounds of the model *)

\* how many times the clock is advanced
MaxTicks == 2

\* how many query-result files the cache directory holds at once
MaxQueryFiles == 1

\* how many chunks the collection holds at most
MaxChunks == 2

\* how many chat messages a session holds in the runs explored
MaxMessages == 2

\* how many files the document processor is given on its own
MaxCalls == 2

\* how many chunks the collection holds when the sources of a result are
\* looked at
MaxRetrieved == 3

----------------------------------------------------------------------------
(* utils/cache_manager.py *)

\* CacheManager.__init__: the object's user_session_id; cache_dir is
\* .cache/<user_session_id>, with the subdirectories embeddings and queries
CacheManager(user_session_id) ==
    [user_session_id |->
        IF user_session_id = "None" \/ user_session_id = ""
        THEN "default" ELSE user_session_id]

\* hashlib.sha256(data.encode()).hexdigest(): collision-free on the texts of
\* the model, so the digest is the tagged text
GenerateCacheKey(data) == <<"sha256", data>>

\* _get_cache_path with the session subdirectory left out of cache_dir
GetCachePath_NoSessionDir(self, cache_type, key) ==
    IF cache_type = "embedding"
    THEN <<".cache", "default", "embeddings", key, ".pkl">>
    ELSE <<".cache", "default", "queries", key, ".pkl">>

\* _get_cache_path: <cache_dir>/<embeddings|queries>/<key>.pkl
GetCachePath(self, cache_type, key) ==
    IF cache_type = "embedding"
    THEN <<".cache", self.user_session_id, "embeddings", key, ".pkl">>
    ELSE <<".cache", self.user_session_id, "queries", key, ".pkl">>

\* the cache key text of a query: f"{query}:{doc_hash}"
QueryKeyText(query, doc_hash) == query \o <<":">> \o doc_hash

WriteFile(files, path, data, now) ==
    [p \in (DOMAIN files) \cup {path} |->
        IF p = path THEN [data |-> data, mtime |-> now] ELSE files[p]]

Unlink(files, paths) == [p \in (DOMAIN files) \ paths |-> files[p]]

\* <dir>.glob("*.pkl")
Glob(self, files, subdir) ==
    {p \in DOMAIN files : p[2] = self.user_session_id /\ p[3] = subdir}

\* get_cached_embedding(text) -> [files, ret]
GetCachedEmbedding(self, text, files, caching) ==
    IF ~caching THEN [files |-> files, ret |-> PyNone]
    ELSE LET path == GetCachePath(self, "embedding", GenerateCacheKey(text))
         IN  IF path \in DOMAIN files
             THEN [files |-> files, ret |-> files[path].data]
             ELSE [files |-> files, ret |-> PyNone]

\* cache_embedding(text, embedding) -> [files, ret]
CacheEmbedding(self, text, embedding, files, now, caching) ==
    IF ~caching THEN [files |-> files, ret |-> PyBool(FALSE)]
    ELSE LET path == GetCachePath(self, "embedding", GenerateCacheKey(text))
         IN  [files |-> WriteFile(files, path, embedding, now),
              ret |-> PyBool(TRUE)]

\* get_cached_query with the TTL test written <= instead of <
GetCachedQuery_AgeAtMostTTL(self, query, doc_hash, files, now, caching) ==
    IF ~caching THEN [files |-> files, ret |-> PyNone]
    ELSE LET path == GetCachePath(self, "query",
                        GenerateCacheKey(QueryKeyText(query, doc_hash)))
         IN  IF path \in DOMAIN files
             THEN IF now - files[path].mtime <= CACHE_TTL
                  THEN [files |-> files, ret |-> files[path].data]
                  ELSE [files |-> Unlink(files, {path}), ret |-> PyNone]
             ELSE [files |-> files, ret |-> PyNone]

\* get_cached_query(query, doc_hash) -> [files, ret]
GetCachedQuery(self, query, doc_hash, files, now, caching) ==
    IF ~caching THEN [files |-> files, ret |-> PyNone]
    ELSE LET path == GetCachePath(self, "query",
                        GenerateCacheKey(QueryKeyText(query, doc_hash)))
         IN  IF path \in DOMAIN files
             THEN IF now - files[path].mtime < CACHE_TTL
                  THEN [files |-> files, ret |-> files[path].data]
                  ELSE [files |-> Unlink(files, {path}), ret |-> PyNone]
             ELSE [files |-> files, ret |-> PyNone]

\* cache_query without the ENABLE_CACHING test
CacheQuery_NotGated(self, query, result, doc_hash, files, now, caching) ==
    LET path == GetCachePath(self, "query",
                    GenerateCacheKey(QueryKeyText(query, doc_hash)))
    IN  [files |-> WriteFile(files, path, result, now), ret |-> PyBool(TRUE)]

\* cache_query(query, result, doc_hash) -> [files, ret]
CacheQuery(self, query, result, doc_hash, files, now, caching) ==
    IF ~caching THEN [files |-> files, ret |-> PyBool(FALSE)]
    ELSE LET path == GetCachePath(self, "query",
                        GenerateCacheKey(QueryKeyText(query, doc_hash)))
         IN  [files |-> WriteFile(files, path, result, now),
              ret |-> PyBool(TRUE)]

\* clear_cache(cache_type) -> [files, ret]; cache_type "None" is the default
ClearCache(self, cache_type, files) ==
    LET emb == IF cache_type = "embedding" \/ cache_type = "None"
               THEN Glob(self, files, "embeddings") ELSE {}
        qry == IF cache_type = "query" \/ cache_type = "None"
               THEN Glob(self, files, "queries") ELSE {}
    IN  [files |-> Unlink(files, emb \cup qry), ret |-> PyBool(TRUE)]

\* get_cache_stats() -> the counts of the statistics dict (the byte sizes
\* of the pickles are not modelled)
GetCacheStats(self, files) ==
    [kind |-> "stats",
     embedding_cache_count |-> Cardinality(Glob(self, files, "embeddings")),
     query_cache_count |-> Cardinality(Glob(self, files, "queries"))]

----------------------------------------------------------------------------
(* services/vector_store.py *)

TOP_K_RETRIEVAL == 5

\* dict.get(key, default) on a chunk's metadata
MetaGet(metadata, key, default) ==
    IF key \in DOMAIN metadata THEN metadata[key] ELSE default

\* VectorStoreService.__init__: _initialize_embeddings and
\* _initialize_vector_store.  emb_ok and store_ok tell whether the
\* embeddings client and the Chroma client could be constructed.  deleted
\* tells that the collection of the Chroma object in self.vector_store was
\* deleted, or removed by a reset of its client, and the object not
\* replaced: every call on it raises.
VectorStoreService(key, emb_ok, store_ok) ==
    LET embeddings == key /\ emb_ok
    IN  [embeddings |-> embeddings, vector_store |-> embeddings /\ store_ok,
         deleted |-> FALSE]

\* VectorStoreService.is_initialized
VsIsInitialized(self) == self.vector_store /\ self.embeddings

\* get_collection_info()["document_count"]
DocumentCount(self, coll) ==
    IF ~self.vector_store THEN 0
    ELSE IF self.deleted THEN 0
    ELSE Len(coll)

Min(a, b) == IF a < b THEN a ELSE b

\* similarity_search_with_score(query, k): the (chunk, score) pairs, or []
\* when the store is absent or the boundary call raised.  The index returns
\* its first min(k, count) chunks, scored by rank.
SimilaritySearchWithScore(self, coll, k, outcome) ==
    IF ~self.vector_store THEN << >>
    ELSE IF self.deleted \/ outcome = "raise" THEN << >>
    ELSE [i \in 1..Min(k, Len(coll)) |-> [doc |-> coll[i], score |-> i]]

\* add_documents(documents) -> [collection, ret].  outcome is "ok" or
\* "raise": the store's add_documents embeds the texts before it writes,
\* and a raise leaves the collection as it was.
AddDocuments(self, coll, documents, outcome) ==
    IF ~self.vector_store \/ documents = << >>
    THEN [collection |-> coll, ret |-> FALSE]
    ELSE IF self.deleted \/ outcome = "raise"
    THEN [collection |-> coll, ret |-> FALSE]
    ELSE [collection |-> coll \o documents, ret |-> TRUE]

\* clear_collection that reports success without deleting the collection
ClearCollection_NothingDeleted(self, coll, outcome) ==
    [vs |-> self, collection |-> coll, ret |-> self.vector_store]

\* clear_collection() -> [vs, collection, ret]: delete_collection, then
\* _initialize_vector_store again.  outcome "raise": the delete raised;
\* "reinit_raise": the delete was done and _initialize_vector_store
\* raised, which it reports and swallows (vector_store.py:98-99), leaving
\* self.vector_store the object whose collection is deleted.
ClearCollection(self, coll, outcome) ==
    IF ~self.vector_store THEN [vs |-> self, collection |-> coll, ret |-> FALSE]
    ELSE IF self.deleted \/ outcome = "raise"
    THEN [vs |-> self, collection |-> coll, ret |-> FALSE]
    ELSE IF outcome = "reinit_raise"
    THEN [vs |-> [self EXCEPT !.deleted = TRUE], collection |-> << >>,
          ret |-> TRUE]
    ELSE [vs |-> self, collection |-> << >>, ret |-> TRUE]

\* close(): the reset of the Chroma client (constructed with
\* allow_reset=True, vector_store.py:76) removes its collections and
\* leaves self.vector_store the object of a collection that is gone;
\* outcome "raise": the reset raised, which close swallows
\* (vector_store.py:229-230) -> [vs, collection]
Close(self, coll, outcome) ==
    IF ~self.vector_store \/ outcome = "raise"
    THEN [vs |-> self, collection |-> coll]
    ELSE [vs |-> [self EXCEPT !.deleted = TRUE], collection |-> << >>]

----------------------------------------------------------------------------
(* core/rag_chain.py *)

\* RAGChain.__init__: _initialize_llm and _setup_chain.  llm_ok tells
\* whether ChatGoogleGenerativeAI could be constructed; cache_manager is a
\* manager of `managers`, or 0 for None.
RAGChain(key, llm_ok, cache_manager) ==
    LET llm == key /\ llm_ok
    IN  [llm |-> llm, chain |-> llm, cache_manager |-> cache_manager]

\* RAGChain.is_initialized
RagIsInitialized(self) == self.chain /\ self.llm

NotInitializedResult ==
    [answer |-> "System not properly initialized. Please check your API key and try again.",
     sources |-> << >>, error |-> TRUE]

\* the result for an empty retrieval with the error flag set
NotFoundResult_ErrorSet ==
    [answer |-> "I couldn't find information about this in your documents.",
     sources |-> << >>, error |-> TRUE]

\* the result for an empty retrieval (rag_chain.py:113-117)
NotFoundResult ==
    [answer |-> "I couldn't find information about this in your documents.",
     sources |-> << >>, error |-> FALSE]

ErrorResult ==
    [answer |-> "An error occurred while processing your question. Please try again.",
     sources |-> << >>, error |-> TRUE]

Ellipsis == <<".", ".", ".">>

\* the source_info dict with the content cut from 200 characters on
SourceInfo_CutsFrom200(pair, i) ==
    [source_file |-> MetaGet(pair.doc.metadata, "source_file", "Unknown"),
     content |-> IF Len(pair.doc.page_content) >= 200
                 THEN SubSeq(pair.doc.page_content, 1, 200) \o Ellipsis
                 ELSE pair.doc.page_content,
     relevance_score |-> pair.score,
     chunk_id |-> MetaGet(pair.doc.metadata, "chunk_id", i)]

\* the source_info dict of the i-th retrieved pair (i counts from 0)
SourceInfo(pair, i) ==
    [source_file |-> MetaGet(pair.doc.metadata, "source_file", "Unknown"),
     content |-> IF Len(pair.doc.page_content) > 200
                 THEN SubSeq(pair.doc.page_content, 1, 200) \o Ellipsis
                 ELSE pair.doc.page_content,
     relevance_score |-> pair.score,
     chunk_id |-> MetaGet(pair.doc.metadata, "chunk_id", i)]

\* what one call of query did: the dict it returned, the (question,
\* doc_hash) keys it passed to get_cached_query (lookups) and cache_query
\* (writes), how often it called similarity_search_with_score and
\* chain.invoke, how many pairs the search returned, the boundary call
\* that raised, and whether query itself raised
QLog(question, result, lookups, searches, retrieved, llm_calls, writes, failed) ==
    [question |-> question, result |-> result, lookups |-> lookups,
     searches |-> searches, retrieved |-> retrieved, llm_calls |-> llm_calls,
     writes |-> writes, failed |-> failed, raised |-> FALSE]

\* the test at the start of query without its vector store half
QueryNotInitialized_IgnoresStore(self, store) == ~self.chain

\* not self.chain or not self.vector_store.is_initialized()
QueryNotInitialized(self, store) == ~self.chain \/ ~VsIsInitialized(store)

\* doc_hash = str(collection_info.get("document_count", 0))
QueryDocHash(store, coll) == Str(DocumentCount(store, coll))

\* query without its cache lookup
CachedResult_NoLookup(self, mgrs, files, now, caching, question, doc_hash) ==
    [files |-> files, ret |-> PyNone]

\* the cache lookup at the start of query -> [files, ret]
CachedResult(self, mgrs, files, now, caching, question, doc_hash) ==
    IF self.cache_manager # 0
    THEN GetCachedQuery(mgrs[self.cache_manager], question, doc_hash, files,
                        now, caching)
    ELSE [files |-> files, ret |-> PyNone]

\* the cache write at the end of query
CacheResult(self, mgrs, files, now, caching, question, result, doc_hash) ==
    IF self.cache_manager # 0
    THEN CacheQuery(mgrs[self.cache_manager], question, result, doc_hash,
                    files, now, caching)
    ELSE [files |-> files, ret |-> PyBool(FALSE)]

\* query from the return of self.chain.invoke on (rag_chain.py:130-163)
\* -> [files, log]: docs_with_scores is what the search returned, lookups
\* the key looked up at the start of the call, generation "raise" or the
\* answer of the LLM; store and coll are the vector store and its
\* collection when the answer has arrived, which get_collection_info
\* reads for the key of the write (rag_chain.py:151-152)
QueryAnswered(self, store, coll, mgrs, files, now, caching, question, docs_with_scores, lookups, generation) ==
    IF generation = "raise"
    THEN [files |-> files,
          log |-> QLog(question, ErrorResult, lookups, 1, Len(docs_with_scores),
                       1, << >>, "generation")]
    ELSE CHOOSE out \in
            {[files |-> CacheResult(self, mgrs, files, now, caching, question,
                                    result, doc_hash).files,
              log |-> QLog(question, result, lookups, 1, Len(docs_with_scores),
                           1, IF self.cache_manager # 0 THEN <<doc_hash>>
                              ELSE << >>, "none")] :
                result \in {[answer |-> generation,
                             sources |-> [i \in 1..Len(docs_with_scores) |->
                                            SourceInfo(docs_with_scores[i], i - 1)],
                             error |-> FALSE]},
                doc_hash \in {QueryDocHash(store, coll)}} : TRUE

\* query from the similarity search on (rag_chain.py:105-160), the key
\* lookups having been looked up and missed -> [files, log]
QuerySearched(self, store, coll, mgrs, files, now, caching, question, lookups, retrieval, generation) ==
    LET cm == self.cache_manager
        docs_with_scores ==
            SimilaritySearchWithScore(store, coll, TOP_K_RETRIEVAL, retrieval)
        search_failed == IF store.deleted \/ retrieval = "raise"
                         THEN "retrieval" ELSE "none"
        doc_hash2 == QueryDocHash(store, coll)
        writes == IF cm # 0 THEN <<doc_hash2>> ELSE << >>
    IN
    IF docs_with_scores = << >>
    THEN [files |-> CacheResult(self, mgrs, files, now, caching, question,
                                NotFoundResult, doc_hash2).files,
          log |-> QLog(question, NotFoundResult, lookups, 1, 0, 0, writes,
                       search_failed)]
    ELSE QueryAnswered(self, store, coll, mgrs, files, now, caching,
                       question, docs_with_scores, lookups, generation)

\* query(question) -> [files, log].  files are the cache files after the
\* call and log tells what the call did.  retrieval is "ok" or "raise",
\* generation "raise" or the answer of the LLM.  The except clause
\* returns ErrorResult, so the call never raises.
Query(self, store, coll, mgrs, files, now, caching, question, retrieval, generation) ==
    IF QueryNotInitialized(self, store)
    THEN [files |-> files,
          log |-> QLog(question, NotInitializedResult, << >>, 0, 0, 0, << >>, "none")]
    ELSE
    LET cm == self.cache_manager
        doc_hash == QueryDocHash(store, coll)
        got == CachedResult(self, mgrs, files, now, caching, question, doc_hash)
        lookups == IF cm # 0 THEN <<doc_hash>> ELSE << >>
    IN
    IF got.ret # PyNone
    THEN [files |-> got.files,
          log |-> QLog(question, got.ret, lookups, 0, 0, 0, << >>, "none")]
    ELSE QuerySearched(self, store, coll, mgrs, got.files, now, caching,
                       question, lookups, retrieval, generation)

NoQuery == QLog(<< >>, PyNone, << >>, 0, 0, 0, << >>, "none")

\* a call on the vector store as its caller saw it: the operation, the
\* chunk count get_collection_info would have reported before it, what it
\* returned (a boolean, or the dict of get_collection_info), and the
\* caller's record `cleared`
VsLog(op, count_before, ret, cleared) ==
    [op |-> op, count_before |-> count_before, ret |-> ret,
     cleared |-> cleared]

NoStoreCall == VsLog("none", 0, FALSE, FALSE)

\* the vector store and the RAG chain are not constructed
RagUnused ==
    /\ services = "none"
    /\ vs = VectorStoreService(FALSE, FALSE, FALSE)
    /\ collection = << >>
    /\ rag = RAGChain(FALSE, FALSE, 0)
    /\ q_log = NoQuery
    /\ vs_log = NoStoreCall

----------------------------------------------------------------------------
(* services/document_processor.py *)

MAX_FILE_SIZE_MB == 10

\* str.lower() on the letters that occur in the file names of the model
LowerChar(c) ==
    CASE c = "C" -> "c" [] c = "D" -> "d" [] c = "E" -> "e" [] c = "F" -> "f"
      [] c = "M" -> "m" [] c = "O" -> "o" [] c = "P" -> "p" [] c = "T" -> "t"
      [] c = "X" -> "x" [] OTHER -> c

Lower(s) == [i \in 1..Len(s) |-> LowerChar(s[i])]

\* Path(name).suffix: the name from its last dot on, or "" when the name
\* has no dot or the last dot is its first or its last character
PathSuffix(name) ==
    LET dots == {i \in 1..Len(name) : name[i] = "."}
        last == IF dots = {} THEN 0 ELSE CHOOSE i \in dots : \A j \in dots : j <= i
    IN  IF last <= 1 \/ last = Len(name) THEN << >>
        ELSE SubSeq(name, last, Len(name))

\* a list returned where None may be returned as well
PyList(items) == [kind |-> "list", items |-> items]

\* the truth value of a list-or-None
Truthy(v) == v.kind = "list" /\ v.items # << >>

\* _load_document: the documents read from the temporary file, or None.
\* file.fails names the step that raises for this file: "load" is the
\* reader (or the utf-8 decoding), "empty" a reader that finds no pages.
LoadDocument(file_extension, file) ==
    IF file_extension \in {<<".", "p", "d", "f">>, <<".", "d", "o", "c", "x">>}
    THEN IF file.fails = "load" THEN PyNone
         ELSE IF file.fails = "empty" THEN PyList(<< >>)
         ELSE PyList(<<[source_file |-> file.name, file_type |-> file_extension]>>)
    ELSE IF file_extension \in {<<".", "t", "x", "t">>, <<".", "m", "d">>}
    THEN IF file.fails = "load" THEN PyNone
         ELSE PyList(<<[source_file |-> file.name, file_type |-> file_extension]>>)
    ELSE PyNone

\* the chunked documents built from the n nodes of the splitter
ChunkedDocs(name, file_extension, n) ==
    [i \in 1..n |->
        [page_content |-> <<"x">>,
         metadata |-> [source_file |-> name, chunk_id |-> i - 1,
                       file_type |-> file_extension]]]

\* the reader _load_document invokes for an extension: "pdf_reader",
\* "docx_reader", "open" for the plain-text read, or "none"
ReaderFor(file_extension) ==
    IF file_extension = <<".", "p", "d", "f">> THEN "pdf_reader"
    ELSE IF file_extension = <<".", "d", "o", "c", "x">> THEN "docx_reader"
    ELSE IF file_extension \in {<<".", "t", "x", "t">>, <<".", "m", "d">>}
    THEN "open"
    ELSE "none"

\* what one call of process_uploaded_file did: what it returned, whether
\* it created its temporary file and whether the file is left on disk when
\* it returns, the suffix of that file, the reader _load_document invoked
\* and whether the splitter was invoked
ProcessLog(ret, tmp_created, tmp_left, suffix, reader, splitter) ==
    [ret |-> ret, tmp_created |-> tmp_created, tmp_left |-> tmp_left,
     suffix |-> suffix, reader |-> reader, splitter |-> splitter]

\* the size test of process_uploaded_file written >= instead of >
ExceedsSizeLimit_AtLeast(size) == size >= MAX_FILE_SIZE_MB * 1024 * 1024

\* uploaded_file.size > config.MAX_FILE_SIZE_MB * 1024 * 1024
ExceedsSizeLimit(size) == size > MAX_FILE_SIZE_MB * 1024 * 1024

\* the extension of process_uploaded_file without .lower()
FileExtension_CaseKept(name) == PathSuffix(name)

\* file_extension = Path(uploaded_file.name).suffix.lower()
FileExtension(name) == Lower(PathSuffix(name))

\* process_uploaded_file(uploaded_file), with what it did.  file is
\* [name, size, fails, chunks]: size in bytes, fails the step that raises
\* ("none", "write", "load", "empty", "split"), chunks the number of nodes
\* the splitter makes of its text.  A raise of tmp_file.write leaves the
\* `with` block before tmp_file_path is assigned and outside the inner
\* try, so the file, made with delete=False, stays; every later path runs
\* the finally clause that unlinks it.
ProcessUploadedFileRun(file) ==
    IF ExceedsSizeLimit(file.size)
    THEN ProcessLog(PyNone, FALSE, FALSE, << >>, "none", FALSE)
    ELSE
    LET file_extension == FileExtension(file.name)
    IN  IF file.fails = "write"
        THEN ProcessLog(PyNone, TRUE, TRUE, file_extension, "none", FALSE)
        ELSE
        LET documents == LoadDocument(file_extension, file)
            reader == ReaderFor(file_extension)
        IN  IF ~Truthy(documents)
            THEN ProcessLog(PyNone, TRUE, FALSE, file_extension, reader, FALSE)
            ELSE IF file.fails = "split"
            THEN ProcessLog(PyNone, TRUE, FALSE, file_extension, reader, TRUE)
            ELSE ProcessLog(PyList(ChunkedDocs(file.name, file_extension,
                                               file.chunks)),
                            TRUE, FALSE, file_extension, reader, TRUE)

\* process_uploaded_file(uploaded_file): the chunked documents, or None
ProcessUploadedFile(file) == ProcessUploadedFileRun(file).ret

\* no file has been given to the processor
NoProcessCall ==
    [file |-> [name |-> << >>, size |-> 0, fails |-> "none", chunks |-> 0],
     tmp |-> 0, did |-> ProcessLog(PyNone, FALSE, FALSE, << >>, "none", FALSE)]

----------------------------------------------------------------------------
(* deploy.py *)

\* the names of the pre-flight steps, in the order of the list in main
Steps == <<"Python Version", "Dependencies", "Environment", "Directories", "Tests">>

\* the run of the script when main is entered: pc is the position in
\* steps of the step to run next (6: start_app), ran and results the names
\* of the steps called and what each returned ("true", "false", or "raise"
\* when it raised), dirs the directories made, launched how often the
\* application's process was started, exited and status the end of the
\* script
DeployStart ==
    [pc |-> 1, ran |-> << >>, results |-> << >>, dirs |-> {}, launched |-> 0,
     exited |-> FALSE, status |-> 0]

\* a machine on which every step succeeds and the application starts
GoodMachine ==
    [version |-> <<3, 12>>, pip |-> "ok", key |-> TRUE, mkdir |-> "ok",
     tests |-> "pass", launch |-> "ok"]

\* check_python_version(): version is sys.version_info's (major, minor)
CheckPythonVersion(version) ==
    IF version[1] < 3 \/ (version[1] = 3 /\ version[2] < 8)
    THEN "false" ELSE "true"

\* install_dependencies(): pip is "ok", "fail" (CalledProcessError, which
\* is caught) or "raise" (the interpreter could not be started: OSError,
\* which is not)
InstallDependencies(pip) ==
    IF pip = "ok" THEN "true" ELSE IF pip = "fail" THEN "false" ELSE "raise"

\* setup_environment(): key tells whether GOOGLE_API_KEY is in the
\* environment
SetupEnvironment(key) == IF key THEN "true" ELSE "false"

\* create_directories() -> [dirs, ret]: mkdir is "ok", or "raise" when the
\* first mkdir raises
CreateDirectories(dirs, mkdir) ==
    IF mkdir = "raise" THEN [dirs |-> dirs, ret |-> "raise"]
    ELSE [dirs |-> dirs \cup {".cache", "chroma_db", ".streamlit"},
          ret |-> "true"]

\* run_tests(): tests is "pass" (return code 0), "fail" (another return
\* code) or "raise" (subprocess.run raised, which is caught)
RunTests(tests) == IF tests = "pass" THEN "true" ELSE "false"

\* the loop of main going on after a step that did not return True
MainAfterStep_GoesOn(d, result, dirs) ==
    [d EXCEPT !.pc = @ + 1, !.ran = Append(@, Steps[d.pc]),
              !.results = Append(@, result), !.dirs = dirs]

\* one pass of the loop of main (deploy.py:98-102) after step_func()
\* returned result: a false result makes main return 1, a raise leaves
\* main with the exception and the interpreter exits with status 1
MainAfterStep(d, result, dirs) ==
    IF result = "true"
    THEN [d EXCEPT !.pc = @ + 1, !.ran = Append(@, Steps[d.pc]),
                   !.results = Append(@, result), !.dirs = dirs]
    ELSE [d EXCEPT !.ran = Append(@, Steps[d.pc]),
                   !.results = Append(@, result), !.dirs = dirs,
                   !.exited = TRUE, !.status = 1]

\* start_app() and the return of main (deploy.py:104-107, 75-83):
\* subprocess.run is called; whatever it does, a non-zero return code, a
\* KeyboardInterrupt or another exception, start_app returns and main
\* returns 0
MainStartApp(d, launch) ==
    [d EXCEPT !.pc = @ + 1, !.launched = @ + 1, !.exited = TRUE, !.status = 0]

----------------------------------------------------------------------------
(* sqlite_fix.py, and the modules a process loads *)

\* the code point of a character of a version string
Ord(c) ==
    CASE c = "." -> 46 [] c = "0" -> 48 [] c = "1" -> 49 [] c = "2" -> 50
      [] c = "3" -> 51 [] c = "4" -> 52 [] c = "5" -> 53 [] c = "6" -> 54
      [] c = "7" -> 55 [] c = "8" -> 56 [] c = "9" -> 57

\* s < t for two Python str: the first position where they differ
\* decides by code point, and a proper prefix is the smaller one
RECURSIVE StrLess(_, _)
StrLess(s, t) ==
    IF t = << >> THEN FALSE
    ELSE IF s = << >> THEN TRUE
    ELSE IF s[1] # t[1] THEN Ord(s[1]) < Ord(t[1])
    ELSE StrLess(Tail(s), Tail(t))

\* sqlite3.sqlite_version of an engine of version <<major, minor, patch>>
SqliteVersion(v) == Str(v[1]) \o <<".">> \o Str(v[2]) \o <<".">> \o Str(v[3])

\* required_version (sqlite_fix.py:14)
RequiredVersion == <<"3", ".", "3", "5", ".", "0">>

\* fix_sqlite() -> [ret, attempted, patched]: current_version is
\* sqlite3.sqlite_version, pysqlite3 tells whether pysqlite3.dbapi2 can be
\* imported; attempted tells that the import was tried, patched that
\* sys.modules['sqlite3'] was replaced
FixSqlite(current_version, pysqlite3) ==
    IF StrLess(current_version, RequiredVersion)
    THEN IF pysqlite3
         THEN [ret |-> TRUE, attempted |-> TRUE, patched |-> TRUE]
         ELSE [ret |-> FALSE, attempted |-> TRUE, patched |-> FALSE]
    ELSE [ret |-> TRUE, attempted |-> FALSE, patched |-> FALSE]

\* the modules of the repository named by the import statements of a
\* module
RepoImports(module) ==
    CASE module = "app" ->
            {"config.settings", "services.document_processor",
             "services.vector_store", "core.rag_chain", "utils.cache_manager"}
      [] module = "core.rag_chain" ->
            {"config.settings", "services.vector_store", "utils.cache_manager"}
      [] module \in {"services.document_processor", "services.vector_store",
                     "utils.cache_manager"} -> {"config.settings"}
      [] OTHER -> {}

\* the modules loaded when the modules of todo are: todo and all they
\* import, directly or not
RECURSIVE Loaded(_, _)
Loaded(todo, done) ==
    IF todo \subseteq done THEN done
    ELSE Loaded(UNION {RepoImports(m) : m \in todo}, done \cup todo)

\* how often the statements a module runs when it is loaded call
\* fix_sqlite(): sqlite_fix.py calls it under `if __name__ == "__main__":`
\* (sqlite_fix.py:37-38), no other module names it
FixSqliteCallsOnLoad(module, is_main) ==
    IF module = "sqlite_fix" /\ is_main THEN 1 ELSE 0

\* no call of fix_sqlite was made
NoFixCall == [ret |-> FALSE, attempted |-> FALSE, patched |-> FALSE]

\* a process before its entry module is loaded: pc is "start", then
\* "main" (app.py loaded, main() not yet run), "served" (the first run of
\* main() is over) or "exit"; sqlite3 names what sys.modules['sqlite3']
\* resolves to; fix_calls counts the calls of fix_sqlite and fix_log holds
\* what the last returned; storage_opens counts the constructions of the
\* Chroma client, fixes_before_open the calls of fix_sqlite made before
\* the first one
ProcStart ==
    [pc |-> "start", loaded |-> {}, sqlite3 |-> "system", fix_calls |-> 0,
     fix_log |-> NoFixCall, storage_opens |-> 0, fixes_before_open |-> 0]

\* the process after the entry module and its imports were loaded
LoadModules(p, e) ==
    CHOOSE out \in
        {[p EXCEPT
            !.pc = IF e.entry = "app" THEN "main" ELSE "exit",
            !.loaded = loaded,
            !.fix_calls = @ + calls,
            !.fix_log = IF calls > 0 THEN fixed ELSE @,
            !.sqlite3 = IF calls > 0 /\ fixed.patched THEN "pysqlite3" ELSE @] :
            loaded \in {Loaded({e.entry}, {})},
            calls \in {Cardinality(
                        {m \in Loaded({e.entry}, {}) :
                            FixSqliteCallsOnLoad(m, m = e.entry) = 1})},
            fixed \in {FixSqlite(SqliteVersion(e.sqlite_version), e.pysqlite3)}} :
        TRUE

\* the process after the first run of main(): constructed tells that the
\* run's initialize_services built the services, store is the vector
\* store service then.  _initialize_vector_store constructs the Chroma
\* client when the embeddings exist (vector_store.py:45-46, 81-88).
AfterFirstMain(p, constructed, store) ==
    IF constructed /\ store.embeddings
    THEN [p EXCEPT !.pc = "served", !.storage_opens = @ + 1,
                   !.fixes_before_open = p.fix_calls]
    ELSE [p EXCEPT !.pc = "served"]

\* no process is followed
ProcUnused ==
    /\ proc_env = [entry |-> "app", sqlite_version |-> <<3, 40, 1>>,
                   pysqlite3 |-> FALSE]
    /\ proc = ProcStart

\* no second browser session
NoTabs == << >>

\* neither the document processor nor the deployment helper has run
ToolsUnused ==
    /\ dp_calls = 0
    /\ tmp_files = {}
    /\ dp_log = NoProcessCall
    /\ dep_env = GoodMachine
    /\ dep = DeployStart
    /\ ProcUnused
    /\ tabs = NoTabs

----------------------------------------------------------------------------
(* app.py *)

\* the cache manager of the application: the one constructed with the
\* persistent session id
AppManager == 3

\* the id get_persistent_session_id() builds from the node name, the
\* system name and the login name (app.py:136-138)
PersistentSessionId == "ara_1f3a9c0e"

\* get_persistent_session_id() -> [raised, id]: os.getlogin() raises
\* OSError in a process without a controlling terminal (e.login_ok FALSE),
\* and hasattr(os, 'getlogin') does not guard against that (app.py:136)
GetPersistentSessionId(e) ==
    IF e.login_ok THEN [raised |-> FALSE, id |-> PersistentSessionId]
    ELSE [raised |-> TRUE, id |-> PyNone]

\* validate_config()
ValidateConfig(key) == key

\* a browser session that has not run the script yet
NewSessionState == << >>

SessionDefault(k) ==
    CASE k = "messages" -> << >>
      [] k = "documents_processed" -> 0
      [] k = "vector_store_ready" -> FALSE
      [] k = "uploaded_files" -> << >>
      [] OTHER -> PersistentSessionId

\* initialize_session_state() raises: user_session_id is missing and
\* get_persistent_session_id raises (app.py:152-153)
InitializeSessionStateRaises(state, e) ==
    "user_session_id" \notin DOMAIN state /\ GetPersistentSessionId(e).raised

\* initialize_session_state(): every missing key gets its default, in the
\* order of app.py:144-153; when it raises, the four keys before
\* user_session_id are set
InitializeSessionState(state, e) ==
    [k \in (DOMAIN state) \cup {"messages", "documents_processed",
                                "vector_store_ready", "uploaded_files"}
            \cup (IF InitializeSessionStateRaises(state, e) THEN {}
                  ELSE {"user_session_id"}) |->
        IF k \in DOMAIN state THEN state[k] ELSE SessionDefault(k)]

\* initialize_services(), under st.cache_resource: the objects are
\* constructed by the first call of the process and returned by every
\* later one -> [vs, rag, id, raised]; a call that raises in
\* get_persistent_session_id (app.py:175) constructs nothing and caches
\* nothing
InitializeServices(built, store, chain, key, e) ==
    IF built = "built"
    THEN [vs |-> store, rag |-> chain, id |-> PersistentSessionId,
          raised |-> FALSE]
    ELSE IF GetPersistentSessionId(e).raised
    THEN [vs |-> store, rag |-> chain, id |-> PyNone, raised |-> TRUE]
    ELSE [vs |-> VectorStoreService(key, e.emb_ok, e.store_ok),
          rag |-> RAGChain(key, e.llm_ok, AppManager),
          id |-> GetPersistentSessionId(e).id, raised |-> FALSE]

\* check_existing_documents(vector_store): the session state after it
CheckExistingDocuments(store, coll, state) ==
    LET document_count == DocumentCount(store, coll)
    IN  IF document_count > 0
        THEN [state EXCEPT
                !.vector_store_ready = TRUE,
                !.documents_processed = IF @ = 0 THEN document_count ELSE @]
        ELSE state

\* what check_existing_documents returns: document_count > 0
CheckExistingDocumentsRet(store, coll) == DocumentCount(store, coll) > 0

InSeq(x, seq) == \E i \in 1..Len(seq) : seq[i] = x

\* the three session-state fields upload handling writes
UploadFields(state) ==
    [uploaded_files |-> state.uploaded_files,
     documents_processed |-> state.documents_processed,
     vector_store_ready |-> state.vector_store_ready]

\* the session-state update without the test of add_documents' result
RecordNewFile_IgnoresAddResult(state, coll, file, documents, added) ==
    LET state2 == IF Truthy(documents)
                  THEN [state EXCEPT
                          !.uploaded_files = Append(@, file.name),
                          !.documents_processed = @ + Len(documents.items),
                          !.vector_store_ready = TRUE]
                  ELSE state
    IN  [ss |-> state2, collection |-> added.collection,
         entry |-> [file |-> file, documents |-> documents,
                    add_called |-> Truthy(documents), add_ret |-> added.ret,
                    before |-> UploadFields(state),
                    after |-> UploadFields(state2),
                    chunks_before |-> Len(coll),
                    chunks_after |-> Len(added.collection)]]

\* the body of `if documents:` (app.py:275-280) for one new file ->
\* [ss, collection, entry]: documents is what the processor returned,
\* added the [collection, ret] of add_documents, or ret FALSE when it was
\* not called; entry records what was done with the file
RecordNewFile(state, coll, file, documents, added) ==
    LET state2 == IF Truthy(documents) /\ added.ret
                  THEN [state EXCEPT
                          !.uploaded_files = Append(@, file.name),
                          !.documents_processed = @ + Len(documents.items),
                          !.vector_store_ready = TRUE]
                  ELSE state
    IN  [ss |-> state2, collection |-> added.collection,
         entry |-> [file |-> file, documents |-> documents,
                    add_called |-> Truthy(documents), add_ret |-> added.ret,
                    before |-> UploadFields(state),
                    after |-> UploadFields(state2),
                    chunks_before |-> Len(coll),
                    chunks_after |-> Len(added.collection)]]

\* vector_store.add_documents(documents), called when documents is truthy
AddNewFile(store, coll, documents, add_outcome) ==
    IF Truthy(documents)
    THEN AddDocuments(store, coll, documents.items, add_outcome)
    ELSE [collection |-> coll, ret |-> FALSE]

\* one pass of the loop of process_uploaded_files (app.py:269-282).
\* Here and below, CHOOSE out \in {E(x) : x \in {v}} : TRUE is E(v) with
\* the value v computed once and named x, as an assignment does.
HandleNewFile(state, store, coll, file, add_outcome) ==
    CHOOSE out \in
        {RecordNewFile(state, coll, file, documents,
                       AddNewFile(store, coll, documents, add_outcome)) :
            documents \in {ProcessUploadedFile(file)}} : TRUE

\* the loop over new_files, from the i-th file on
RECURSIVE HandleNewFiles(_, _, _, _, _, _, _)
HandleNewFiles(state, store, coll, new_files, adds, i, log) ==
    IF i > Len(new_files)
    THEN [ss |-> state, collection |-> coll, log |-> log]
    ELSE CHOOSE out \in
            {HandleNewFiles(r.ss, store, r.collection, new_files, adds, i + 1,
                            Append(log, r.entry)) :
                r \in {HandleNewFile(state, store, coll, new_files[i], adds[i])}} :
            TRUE

\* new_files of process_uploaded_files: the files whose name is not in
\* st.session_state.uploaded_files when the function starts
NewFiles(state, uploaded_files) ==
    SelectSeq(uploaded_files, LAMBDA f : ~InSeq(f.name, state.uploaded_files))

\* process_uploaded_files(uploaded_files) -> [ss, collection, log, rerun]:
\* adds[i] is the outcome of add_documents for the i-th new file; rerun
\* tells that it ended in st.rerun()
ProcessUploadedFiles(state, store, coll, uploaded_files, adds) ==
    IF NewFiles(state, uploaded_files) = << >>
    THEN [ss |-> state, collection |-> coll, log |-> << >>, rerun |-> FALSE]
    ELSE CHOOSE out \in
            {[ss |-> r.ss, collection |-> r.collection, log |-> r.log,
              rerun |-> TRUE] :
                r \in {HandleNewFiles(state, store, coll,
                                      NewFiles(state, uploaded_files), adds, 1,
                                      << >>)}} : TRUE

\* the session-state fields the "Clear Documents" button is about
ClearFields(state) ==
    [documents_processed |-> state.documents_processed,
     uploaded_files |-> state.uploaded_files,
     vector_store_ready |-> state.vector_store_ready,
     messages |-> state.messages]

\* the "Clear Documents" button with the fields reset whatever
\* clear_collection returned
ClearDocumentsClicked_IgnoresResult(up, files, cleared) ==
    LET state2 == [up.ss EXCEPT !.documents_processed = 0,
                                !.uploaded_files = << >>,
                                !.vector_store_ready = FALSE]
    IN  [ss |-> state2, vs |-> cleared.vs, collection |-> cleared.collection,
         files |-> files, log |-> up.log,
         clear |-> <<[ret |-> cleared.ret, before |-> ClearFields(up.ss),
                      after |-> ClearFields(state2)]>>,
         rerun |-> cleared.ret]

\* the "Clear Documents" button clicked (app.py:240-246); cleared is the
\* [vs, collection, ret] of vector_store.clear_collection().  The entry
\* in clear records what the call returned and the fields before and
\* after the button was handled.
ClearDocumentsClicked(up, files, cleared) ==
    LET state2 == IF cleared.ret
                  THEN [up.ss EXCEPT !.documents_processed = 0,
                                     !.uploaded_files = << >>,
                                     !.vector_store_ready = FALSE]
                  ELSE up.ss
    IN  [ss |-> state2, vs |-> cleared.vs, collection |-> cleared.collection,
         files |-> files, log |-> up.log,
         clear |-> <<[ret |-> cleared.ret, before |-> ClearFields(up.ss),
                      after |-> ClearFields(state2)]>>,
         rerun |-> cleared.ret]

\* the buttons of display_sidebar (app.py:239-251), reached when upload
\* handling did not rerun -> [ss, vs, collection, files, log, clear, rerun]
SidebarButtons(up, store, mgrs, files, ev) ==
    IF ev.trigger = "clear_documents"
    THEN CHOOSE out \in
            {ClearDocumentsClicked(up, files, cleared) :
                cleared \in {ClearCollection(store, up.collection, ev.clear)}} :
            TRUE
    ELSE [ss |-> up.ss, vs |-> store, collection |-> up.collection,
          files |-> IF ev.trigger = "clear_cache"
                    THEN ClearCache(mgrs[AppManager], "None", files).files
                    ELSE files,
          log |-> up.log, clear |-> << >>, rerun |-> FALSE]

\* display_sidebar(vector_store, cache_manager) -> [ss, vs, collection,
\* files, log, clear, rerun].  Its get_collection_info and get_cache_stats only read.
DisplaySidebar(state, store, coll, mgrs, files, uploaded_files, ev) ==
    IF uploaded_files = << >>
    THEN SidebarButtons([ss |-> state, collection |-> coll, log |-> << >>],
                        store, mgrs, files, ev)
    ELSE CHOOSE out \in
            {IF up.rerun
             THEN [ss |-> up.ss, vs |-> store, collection |-> up.collection,
                   files |-> files, log |-> up.log, clear |-> << >>,
                   rerun |-> TRUE]
             ELSE SidebarButtons(up, store, mgrs, files, ev) :
                up \in {ProcessUploadedFiles(state, store, coll, uploaded_files,
                                             ev.adds)}} : TRUE

\* the messages appended for a question and its response
ChatMessages(prompt, response) ==
    <<[role |-> "user", content |-> prompt],
      [role |-> "assistant", content |-> response.answer,
       sources |-> response.sources]>>

\* what handle_chat_input did with a submitted question: the readiness
\* flag it read, whether it called rag_chain.query, and the message list
\* before and after
ChatEntry(prompt, state, queried, state2) ==
    [prompt |-> prompt, ready |-> state.vector_store_ready,
     queried |-> queried, before |-> state.messages,
     after |-> state2.messages]

\* handle_chat_input without its test of the readiness flag
HandleChatInput_NoReadyTest(state, chain, store, coll, mgrs, files, now, caching, prompt, retrieval, generation) ==
    IF prompt = << >>
    THEN [ss |-> state, files |-> files, log |-> NoQuery, chat |-> << >>]
    ELSE CHOOSE out \in
            {CHOOSE out2 \in
                {[ss |-> state2, files |-> r.files, log |-> r.log,
                  chat |-> <<ChatEntry(prompt, state, TRUE, state2)>>] :
                    state2 \in {[state EXCEPT
                        !.messages = @ \o ChatMessages(prompt, r.log.result)]}} :
                TRUE :
                r \in {Query(chain, store, coll, mgrs, files, now, caching,
                             prompt, retrieval, generation)}} : TRUE

\* handle_chat_input(rag_chain) -> [ss, files, log, chat]; prompt is the
\* text submitted to st.chat_input, or << >> when none was; chat holds the
\* entry of the question when one was submitted
HandleChatInput(state, chain, store, coll, mgrs, files, now, caching, prompt, retrieval, generation) ==
    IF prompt = << >>
    THEN [ss |-> state, files |-> files, log |-> NoQuery, chat |-> << >>]
    ELSE IF ~state.vector_store_ready
    THEN [ss |-> state, files |-> files, log |-> NoQuery,
          chat |-> <<ChatEntry(prompt, state, FALSE, state)>>]
    ELSE CHOOSE out \in
            {CHOOSE out2 \in
                {[ss |-> state2, files |-> r.files, log |-> r.log,
                  chat |-> <<ChatEntry(prompt, state, TRUE, state2)>>] :
                    state2 \in {[state EXCEPT
                        !.messages = @ \o ChatMessages(prompt, r.log.result)]}} :
                TRUE :
                r \in {Query(chain, store, coll, mgrs, files, now, caching,
                             prompt, retrieval, generation)}} : TRUE

\* what a script run did: the widget event that started it, the session's
\* uploaded-file list when the sidebar was drawn, the entries of the
\* files upload handling passed through its loop, the entry of the
\* "Clear Documents" button when the run handled it, and the entry of the
\* question when handle_chat_input received one
RunLog(trigger, uploaded_before, uploads, clear, chat) ==
    [trigger |-> trigger, uploaded_before |-> uploaded_before,
     uploads |-> uploads, clear |-> clear, chat |-> chat]

NoRun == RunLog("none", << >>, << >>, << >>, << >>)

\* the state a script run leaves
AfterRun(key, built, store, chain, coll, files, state, shown, rerun, qlog, log) ==
    [api_key |-> key, services |-> built, vs |-> store, rag |-> chain,
     collection |-> coll, cache_files |-> files, ss |-> state,
     screen |-> shown, rerun |-> rerun, q_log |-> qlog, run_log |-> log]

\* main() from display_sidebar on (app.py:413-418), the services svc being
\* initialized
MainLayout(key, svc, coll, mgrs, files, now, caching, state, uploaded_files, ev) ==
    CHOOSE out \in
        {IF sb.rerun
         THEN AfterRun(key, "built", sb.vs, svc.rag, sb.collection, sb.files,
                       sb.ss, "app", TRUE, NoQuery,
                       RunLog(ev.trigger, state.uploaded_files, sb.log, sb.clear,
                              << >>))
         ELSE CHOOSE out2 \in
                {AfterRun(key, "built", sb.vs, svc.rag, sb.collection,
                          chat.files, chat.ss, "app", FALSE, chat.log,
                          RunLog(ev.trigger, state.uploaded_files, sb.log, sb.clear,
                                 chat.chat)) :
                    chat \in {HandleChatInput(
                                sb.ss, svc.rag, sb.vs, sb.collection, mgrs,
                                sb.files, now, caching,
                                IF ev.trigger = "chat" THEN ev.prompt ELSE << >>,
                                ev.retrieval, ev.generation)}} : TRUE :
            sb \in {DisplaySidebar(state, svc.vs, coll, mgrs, files,
                                   uploaded_files, ev)}} : TRUE

\* main() from initialize_services on (app.py:386-418): state is the
\* session state after initialize_session_state
MainWithKey(e, key, built, store, chain, coll, mgrs, files, now, caching, state, uploaded_files, ev) ==
    CHOOSE out \in
        {IF svc.raised
         THEN AfterRun(key, built, store, chain, coll, files, state,
                       "exception", FALSE, NoQuery,
                       RunLog(ev.trigger, << >>, << >>, << >>, << >>))
         ELSE IF ~VsIsInitialized(svc.vs) \/ ~RagIsInitialized(svc.rag)
         THEN AfterRun(key, "built", svc.vs, svc.rag, coll, files,
                       [state EXCEPT !.user_session_id = svc.id],
                       "error", FALSE, NoQuery,
                       RunLog(ev.trigger, << >>, << >>, << >>, << >>))
         ELSE MainLayout(key, svc, coll, mgrs, files, now, caching,
                         CheckExistingDocuments(
                            svc.vs, coll,
                            [state EXCEPT !.user_session_id = svc.id]),
                         uploaded_files, ev) :
            svc \in {InitializeServices(built, store, chain, key, e)}} : TRUE

\* main(): one run of the script.  ev is the widget event of the run:
\* [trigger, prompt, adds, clear, retrieval, generation], trigger being
\* "load", "rerun", "api_key", "upload", "clear_documents", "clear_cache"
\* or "chat".  Without a key display_api_key_setup() is shown: a key typed
\* in is stored in config and st.rerun() follows.  A run in which
\* initialize_session_state or initialize_services raises ends there:
\* Streamlit shows the exception (screen "exception") and no widget.
Main(e, key, built, store, chain, coll, mgrs, files, now, caching, state0, uploaded_files, ev) ==
    IF InitializeSessionStateRaises(state0, e)
    THEN AfterRun(key, built, store, chain, coll, files,
                  InitializeSessionState(state0, e), "exception", FALSE,
                  NoQuery, RunLog(ev.trigger, << >>, << >>, << >>, << >>))
    ELSE IF ~ValidateConfig(key)
    THEN AfterRun(key \/ ev.trigger = "api_key", built, store, chain, coll,
                  files, InitializeSessionState(state0, e), "setup",
                  ev.trigger = "api_key", NoQuery,
                  RunLog(ev.trigger, << >>, << >>, << >>, << >>))
    ELSE MainWithKey(e, key, built, store, chain, coll, mgrs, files, now,
                     caching, InitializeSessionState(state0, e),
                     uploaded_files, ev)

\* the widget event of a run and the outcomes of the calls it makes
Event(trigger, prompt, adds, clear, retrieval, generation) ==
    [trigger |-> trigger, prompt |-> prompt, adds |-> adds, clear |-> clear,
     retrieval |-> retrieval, generation |-> generation]

\* the script has not run
AppUnused ==
    /\ env = [emb_ok |-> TRUE, store_ok |-> TRUE, llm_ok |-> TRUE,
              login_ok |-> TRUE]
    /\ ss = NewSessionState
    /\ uploader = << >>
    /\ screen = "none"
    /\ rerun_pending = FALSE
    /\ run_log = NoRun

----------------------------------------------------------------------------
(* The cache manager on its own: three managers, constructed as            *)
(* CacheManager() (test_app.py:84), CacheManager("default") and            *)
(* CacheManager(<persistent session id>) (app.py:179), called in any order *)
(* while the clock advances.                                               *)

\* the user_session_id argument each manager was constructed with
ManagerArgs == <<"None", "default", "ara_1f3a9c0e">>

Managers == DOMAIN ManagerArgs

\* questions: one of them contains the separator of the key text
Questions == {<<"q">>, <<"q", ":", "1">>}

\* doc_hash arguments: fingerprints str(count), of one and of two digits
DocHashes == {Str(1), Str(10)}

\* the values put through each manager: a result that names the manager,
\* so that a value read back tells through which manager it was put, and
\* for the third manager the short-circuit result as a second value
PutBy(m) ==
    [answer |-> (CASE m = 1 -> "put through manager 1"
                   [] m = 2 -> "put through manager 2"
                   [] OTHER -> "put through manager 3"),
     sources |-> << >>, error |-> FALSE]

CacheValues(m) == {PutBy(m)} \cup (IF m = 3 THEN {NotFoundResult} ELSE {})

Texts == {<<"t">>}

EmbeddingValues(m) == {[vector |-> m]}

NoFiles == [p \in {} |-> PyNone]

\* a cache directory left by an earlier process that ran with caching on
LeftOverFiles ==
    WriteFile(
        WriteFile(NoFiles,
                  GetCachePath(CacheManager("ara_1f3a9c0e"), "query",
                               GenerateCacheKey(QueryKeyText(<<"q">>, Str(1)))),
                  NotFoundResult, 0),
        GetCachePath(CacheManager("None"), "embedding",
                     GenerateCacheKey(<<"t">>)),
        [vector |-> 1], 0)

QueryFiles(files) == {p \in DOMAIN files : p[3] = "queries"}

CmLog(op, m, text, doc_hash, value, ret) ==
    [op |-> op, mgr |-> m, text |-> text, doc_hash |-> doc_hash,
     value |-> value, ret |-> ret]

NoPuts == [k \in {} |-> PyNone]

RecordPut(puts, query, doc_hash, result, now) ==
    [k \in (DOMAIN puts) \cup {<<query, doc_hash>>} |->
        IF k = <<query, doc_hash>> THEN [result |-> result, at |-> now]
        ELSE puts[k]]

InitCache ==
    /\ api_key = FALSE
    /\ enable_caching \in BOOLEAN
    /\ clock = 0
    /\ ticks = 0
    /\ cache_files \in (IF enable_caching THEN {NoFiles}
                         ELSE {NoFiles, LeftOverFiles})
    /\ managers = [m \in Managers |-> CacheManager(ManagerArgs[m])]
    /\ cm_log = CmLog("init", 0, << >>, << >>, PyNone, PyNone)
    /\ cm_puts = NoPuts
    /\ RagUnused
    /\ AppUnused
    /\ ToolsUnused

CmGetCachedEmbedding(m, text) ==
    LET r == GetCachedEmbedding(managers[m], text, cache_files, enable_caching)
    IN  /\ cache_files' = r.files
        /\ cm_log' = CmLog("get_cached_embedding", m, text, << >>, PyNone, r.ret)
        /\ UNCHANGED <<api_key, app_vars, tool_vars, rag_vars, enable_caching, clock, ticks, managers, cm_puts>>

CmCacheEmbedding(m, text, embedding) ==
    LET r == CacheEmbedding(managers[m], text, embedding, cache_files, clock,
                            enable_caching)
    IN  /\ cache_files' = r.files
        /\ cm_log' = CmLog("cache_embedding", m, text, << >>, embedding, r.ret)
        /\ UNCHANGED <<api_key, app_vars, tool_vars, rag_vars, enable_caching, clock, ticks, managers, cm_puts>>

CmGetCachedQuery(m, query, doc_hash) ==
    LET r == GetCachedQuery(managers[m], query, doc_hash, cache_files, clock,
                            enable_caching)
    IN  /\ cache_files' = r.files
        /\ cm_log' = CmLog("get_cached_query", m, query, doc_hash, PyNone, r.ret)
        /\ UNCHANGED <<api_key, app_vars, tool_vars, rag_vars, enable_caching, clock, ticks, managers, cm_puts>>

CmCacheQuery(m, query, result, doc_hash, recorded) ==
    LET r == CacheQuery(managers[m], query, result, doc_hash, cache_files,
                        clock, enable_caching)
    IN  /\ Cardinality(QueryFiles(r.files)) <= MaxQueryFiles
        /\ cache_files' = r.files
        /\ cm_log' = CmLog("cache_query", m, query, doc_hash, result, r.ret)
        /\ cm_puts' = IF recorded /\ r.ret = PyBool(TRUE)
                      THEN RecordPut(cm_puts, query, doc_hash, result, clock)
                      ELSE cm_puts
        /\ UNCHANGED <<api_key, app_vars, tool_vars, rag_vars, enable_caching, clock, ticks, managers>>

CmClearCache(m, cache_type, recorded) ==
    LET r == ClearCache(managers[m], cache_type, cache_files)
    IN  /\ cache_files' = r.files
        /\ cm_log' = CmLog("clear_cache", m, cache_type, << >>, PyNone, r.ret)
        /\ cm_puts' = IF recorded /\ cache_type # "embedding" THEN NoPuts
                      ELSE cm_puts
        /\ UNCHANGED <<api_key, app_vars, tool_vars, rag_vars, enable_caching, clock, ticks, managers>>

CmGetCacheStats(m) ==
    /\ cm_log' = CmLog("get_cache_stats", m, << >>, << >>, PyNone,
                       GetCacheStats(managers[m], cache_files))
    /\ UNCHANGED <<api_key, app_vars, tool_vars, rag_vars, enable_caching, clock, ticks, cache_files, managers,
                   cm_puts>>

\* time passes: by the TTL, or by a second less
Tick(d) ==
    /\ ticks < MaxTicks
    /\ clock' = clock + d
    /\ ticks' = ticks + 1
    /\ cm_log' = CmLog("tick", 0, << >>, << >>, PyNone, PyNone)
    /\ UNCHANGED <<api_key, app_vars, tool_vars, rag_vars, enable_caching, cache_files, managers, cm_puts>>

NextCache ==
    \/ \E m \in Managers, t \in Texts : CmGetCachedEmbedding(m, t)
    \/ \E m \in Managers, t \in Texts : \E e \in EmbeddingValues(m) :
            CmCacheEmbedding(m, t, e)
    \/ \E m \in Managers, q \in Questions, h \in DocHashes :
            CmGetCachedQuery(m, q, h)
    \/ \E m \in Managers, q \in Questions, h \in DocHashes : \E r \in CacheValues(m) :
            CmCacheQuery(m, q, r, h, FALSE)
    \/ \E m \in Managers, ct \in {"None", "embedding", "query"} :
            CmClearCache(m, ct, FALSE)
    \/ \E m \in Managers : CmGetCacheStats(m)

SpecCache == InitCache /\ [][NextCache]_vars

(* One manager, the application's, with caching enabled, while time        *)
(* passes; its caller records in cm_puts what it has put.                  *)

InitCacheTTL ==
    /\ api_key = FALSE
    /\ enable_caching = TRUE
    /\ clock = 0
    /\ ticks = 0
    /\ cache_files = NoFiles
    /\ managers = [m \in Managers |-> CacheManager(ManagerArgs[m])]
    /\ cm_log = CmLog("init", 0, << >>, << >>, PyNone, PyNone)
    /\ cm_puts = NoPuts
    /\ RagUnused
    /\ AppUnused
    /\ ToolsUnused

NextCacheTTL ==
    \/ \E q \in Questions, h \in DocHashes : CmGetCachedQuery(3, q, h)
    \/ \E q \in Questions, h \in DocHashes : \E r \in CacheValues(3) :
            CmCacheQuery(3, q, r, h, TRUE)
    \/ \E ct \in {"None", "query"} : CmClearCache(3, ct, TRUE)
    \/ \E d \in {CACHE_TTL - 1, CACHE_TTL} : Tick(d)

SpecCacheTTL == InitCacheTTL /\ [][NextCacheTTL]_vars

----------------------------------------------------------------------------
(* The RAG chain on its own: the services are constructed directly, with  *)
(* or without an API key and with or without a cache manager, and then    *)
(* documents are added, the collection is cleared and questions are asked *)
(* in any order, each boundary call succeeding or raising.                *)

Answers == {"a1"}

\* what the Chroma calls of clear_collection can do
ClearOutcomes == {"ok", "raise", "reinit_raise"}

NameA == <<"a", ".", "t", "x", "t">>

InitRag ==
    /\ api_key \in BOOLEAN
    /\ enable_caching \in BOOLEAN
    /\ clock = 0
    /\ ticks = 0
    /\ cache_files \in (IF enable_caching THEN {NoFiles}
                         ELSE {NoFiles, LeftOverFiles})
    /\ managers = [m \in Managers |-> CacheManager(ManagerArgs[m])]
    /\ cm_log = CmLog("init", 0, << >>, << >>, PyNone, PyNone)
    /\ cm_puts = NoPuts
    /\ RagUnused
    /\ AppUnused
    /\ ToolsUnused

\* VectorStoreService(...) and RAGChain(vector_store, cache_manager)
RagConstruct(emb_ok, store_ok, llm_ok, cache_manager) ==
    /\ services = "none"
    /\ services' = "built"
    /\ vs' = VectorStoreService(api_key, emb_ok, store_ok)
    /\ rag' = RAGChain(api_key, llm_ok, cache_manager)
    /\ UNCHANGED <<api_key, app_vars, tool_vars, cache_vars, collection, q_log, vs_log>>

\* config.GOOGLE_API_KEY = api_key (app.py:372)
SetApiKey ==
    /\ ~api_key
    /\ api_key' = TRUE
    /\ UNCHANGED <<cache_vars, rag_vars, app_vars, tool_vars>>

RagQuery(question, retrieval, generation) ==
    \E r \in {Query(rag, vs, collection, managers, cache_files, clock,
                    enable_caching, question, retrieval, generation)} :
        /\ services = "built"
        /\ Cardinality(QueryFiles(r.files)) <= MaxQueryFiles
        /\ cache_files' = r.files
        /\ q_log' = r.log
        /\ UNCHANGED <<api_key, app_vars, tool_vars, enable_caching, clock, ticks, managers, cm_log,
                       cm_puts, services, vs, collection, rag, vs_log>>

\* vector_store.add_documents(documents); recorded tells whether the
\* caller keeps vs_log
RagAddDocuments(documents, outcome, recorded) ==
    LET r == AddDocuments(vs, collection, documents, outcome)
    IN  /\ services = "built"
        /\ Len(collection) + Len(documents) <= MaxChunks
        /\ collection' = r.collection
        /\ vs_log' = IF recorded
                     THEN VsLog("add_documents", DocumentCount(vs, collection),
                                r.ret, vs_log.cleared /\ ~r.ret)
                     ELSE vs_log
        /\ UNCHANGED <<api_key, app_vars, tool_vars, cache_vars, services, vs, rag, q_log>>

\* vector_store.clear_collection()
RagClearCollection(outcome, recorded) ==
    LET r == ClearCollection(vs, collection, outcome)
        count == DocumentCount(vs, collection)
    IN  /\ services = "built"
        /\ vs' = r.vs
        /\ collection' = r.collection
        /\ vs_log' = IF recorded
                     THEN VsLog("clear_collection", count, r.ret,
                                vs_log.cleared \/ (r.ret /\ count >= 1))
                     ELSE vs_log
        /\ UNCHANGED <<api_key, app_vars, tool_vars, cache_vars, services, rag, q_log>>

\* vector_store.close(): no module of the repository calls it, a caller
\* of the service can
RagClose(outcome, recorded) ==
    LET r == Close(vs, collection, outcome)
    IN  /\ services = "built"
        /\ vs' = r.vs
        /\ collection' = r.collection
        /\ vs_log' = IF recorded
                     THEN VsLog("close", DocumentCount(vs, collection), PyNone,
                                vs_log.cleared)
                     ELSE vs_log
        /\ UNCHANGED <<api_key, app_vars, tool_vars, cache_vars, services, rag, q_log>>

RagTick(d) ==
    /\ ticks < MaxTicks
    /\ clock' = clock + d
    /\ ticks' = ticks + 1
    /\ UNCHANGED <<api_key, app_vars, tool_vars, enable_caching, cache_files, managers, cm_log,
                   cm_puts, rag_vars>>

NextRag ==
    \/ \E emb_ok, store_ok, llm_ok \in BOOLEAN, cm \in {0, AppManager} :
            RagConstruct(emb_ok, store_ok, llm_ok, cm)
    \/ SetApiKey
    \/ \E q \in Questions, retrieval \in {"ok", "raise"},
           generation \in Answers \cup {"raise"} :
            RagQuery(q, retrieval, generation)
    \/ \E n \in 1..MaxChunks, outcome \in {"ok", "raise"} :
            RagAddDocuments(ChunkedDocs(NameA, Lower(PathSuffix(NameA)), n), outcome,
                            FALSE)
    \/ \E outcome \in ClearOutcomes : RagClearCollection(outcome, FALSE)
    \/ \E outcome \in {"ok", "raise"} : RagClose(outcome, FALSE)
    \/ RagTick(CACHE_TTL - 1)

SpecRag == InitRag /\ [][NextRag]_vars

(* The sources of a result: an initialized chain, with or without a cache *)
(* manager, over a collection of chunks whose texts are shorter than, as   *)
(* long as and longer than the 200 characters shown of a source, with and  *)
(* without a chunk_id in their metadata; questions are asked.              *)

\* a text of n characters: an "a", then "x" up to the 200th character and
\* "y" from there on
TextOf(n) ==
    [i \in 1..n |-> IF i = 1 THEN "a" ELSE IF i <= 200 THEN "x" ELSE "y"]

\* a stored chunk
Chunk(n, metadata) == [page_content |-> TextOf(n), metadata |-> metadata]

\* the chunks of the collections: a short one whose chunk_id differs from
\* every position, one of exactly 200 characters without a chunk_id, one
\* of 201 characters, and one of 250 with no metadata at all
SourceChunks ==
    {Chunk(3, [source_file |-> NameA, chunk_id |-> 7]),
     Chunk(200, [source_file |-> NameA]),
     Chunk(201, [source_file |-> NameA, chunk_id |-> 0]),
     Chunk(250, << >>)}

\* the collections of one to MaxRetrieved of these chunks, in every order
SourceCollections ==
    UNION {[1..n -> SourceChunks] : n \in 1..MaxRetrieved}

InitSources ==
    /\ api_key = TRUE
    /\ enable_caching \in BOOLEAN
    /\ clock = 0
    /\ ticks = 0
    /\ cache_files = NoFiles
    /\ managers = [m \in Managers |-> CacheManager(ManagerArgs[m])]
    /\ cm_log = CmLog("init", 0, << >>, << >>, PyNone, PyNone)
    /\ cm_puts = NoPuts
    /\ services = "built"
    /\ vs = VectorStoreService(TRUE, TRUE, TRUE)
    /\ collection \in SourceCollections
    /\ rag \in {RAGChain(TRUE, TRUE, cm) : cm \in {0, AppManager}}
    /\ q_log = NoQuery
    /\ vs_log = NoStoreCall
    /\ AppUnused
    /\ ToolsUnused

NextSources ==
    \E q \in Questions, retrieval \in {"ok", "raise"},
       generation \in Answers \cup {"raise"} :
        RagQuery(q, retrieval, generation)

SpecSources == InitSources /\ [][NextSources]_vars

(* The vector store on its own, with the probe of the application: the    *)
(* store is constructed, with or without a key, over a collection that an *)
(* earlier process may have filled, and then its caller adds documents,    *)
(* clears the collection and asks whether documents exist, in any order,   *)
(* keeping vs_log.                                                         *)

InitStore ==
    /\ api_key \in BOOLEAN
    /\ enable_caching = TRUE
    /\ clock = 0
    /\ ticks = 0
    /\ cache_files = NoFiles
    /\ managers = [m \in Managers |-> CacheManager(ManagerArgs[m])]
    /\ cm_log = CmLog("init", 0, << >>, << >>, PyNone, PyNone)
    /\ cm_puts = NoPuts
    /\ services = "none"
    /\ vs = VectorStoreService(FALSE, FALSE, FALSE)
    /\ collection \in {<< >>, ChunkedDocs(NameA, Lower(PathSuffix(NameA)), 1)}
    /\ rag = RAGChain(FALSE, FALSE, 0)
    /\ q_log = NoQuery
    /\ vs_log = NoStoreCall
    /\ env = [emb_ok |-> TRUE, store_ok |-> TRUE, llm_ok |-> TRUE,
              login_ok |-> TRUE]
    /\ ss = InitializeSessionState(NewSessionState, env)
    /\ uploader = << >>
    /\ screen = "none"
    /\ rerun_pending = FALSE
    /\ run_log = NoRun
    /\ ToolsUnused

\* check_existing_documents(vector_store) in an initialized session
StoreCheckExistingDocuments ==
    /\ services = "built"
    /\ ss' = CheckExistingDocuments(vs, collection, ss)
    /\ vs_log' = VsLog("check_existing_documents",
                       DocumentCount(vs, collection),
                       CheckExistingDocumentsRet(vs, collection),
                       vs_log.cleared)
    /\ UNCHANGED <<api_key, cache_vars, services, vs, collection, rag, q_log,
                   env, uploader, screen, rerun_pending, run_log, tool_vars>>

\* vector_store.get_collection_info(): the dict it returns, of which the
\* callers read document_count
StoreGetCollectionInfo ==
    /\ services = "built"
    /\ vs_log' = VsLog("get_collection_info", DocumentCount(vs, collection),
                       [document_count |-> DocumentCount(vs, collection)],
                       vs_log.cleared)
    /\ UNCHANGED <<api_key, cache_vars, services, vs, collection, rag, q_log,
                   app_vars, tool_vars>>

NextStore ==
    \/ \E emb_ok, store_ok \in BOOLEAN : RagConstruct(emb_ok, store_ok, TRUE, 0)
    \/ SetApiKey
    \/ \E n \in 1..MaxChunks, outcome \in {"ok", "raise"} :
            RagAddDocuments(ChunkedDocs(NameA, Lower(PathSuffix(NameA)), n), outcome,
                            TRUE)
    \/ \E outcome \in ClearOutcomes : RagClearCollection(outcome, TRUE)
    \/ \E outcome \in {"ok", "raise"} : RagClose(outcome, TRUE)
    \/ StoreCheckExistingDocuments
    \/ StoreGetCollectionInfo

SpecStore == InitStore /\ [][NextStore]_vars

----------------------------------------------------------------------------
(* The document processor on its own: it is given files of every kind of  *)
(* name, of sizes around the limit, and whose handling fails at each step, *)
(* one after the other, while the temporary directory keeps what is left.  *)

NameB == <<"b", ".", "P", "D", "F">>

NamePdf == <<"g", ".", "p", "d", "f">>

NameExe == <<"c", ".", "e", "x", "e">>

NameMd == <<"d", ".", "M", "d">>

NameDocx == <<"e", ".", "D", "O", "C", "X">>

NameNoSuffix == <<"f">>

NameDotFile == <<".", "t", "x", "t">>

FileNames ==
    {NameA, NameB, NamePdf, NameExe, NameMd, NameDocx, NameNoSuffix, NameDotFile}

\* sizes in bytes: a small file, a file of exactly the limit, one byte more
FileSizes ==
    {5, MAX_FILE_SIZE_MB * 1024 * 1024, MAX_FILE_SIZE_MB * 1024 * 1024 + 1}

\* the uploaded files given to the processor
UploadedFiles ==
    [name : FileNames, size : FileSizes,
     fails : {"none", "write", "load", "empty", "split"}, chunks : {0, 1}]

InitDoc ==
    /\ api_key = FALSE
    /\ enable_caching = TRUE
    /\ clock = 0
    /\ ticks = 0
    /\ cache_files = NoFiles
    /\ managers = [m \in Managers |-> CacheManager(ManagerArgs[m])]
    /\ cm_log = CmLog("init", 0, << >>, << >>, PyNone, PyNone)
    /\ cm_puts = NoPuts
    /\ RagUnused
    /\ AppUnused
    /\ ToolsUnused

\* doc_processor.process_uploaded_file(file): the temporary file of the
\* call is named by the number of the call and its suffix
DpProcessUploadedFile(file) ==
    \E did \in {ProcessUploadedFileRun(file)} :
        /\ dp_calls < MaxCalls
        /\ dp_calls' = dp_calls + 1
        /\ tmp_files' = IF did.tmp_left
                        THEN tmp_files \cup {[id |-> dp_calls + 1,
                                              suffix |-> did.suffix]}
                        ELSE tmp_files
        /\ dp_log' = [file |-> file, tmp |-> dp_calls + 1, did |-> did]
        /\ UNCHANGED <<api_key, cache_vars, rag_vars, app_vars, dep_env, dep,
                       proc_vars, tabs>>

NextDoc == \E file \in UploadedFiles : DpProcessUploadedFile(file)

SpecDoc == InitDoc /\ [][NextDoc]_vars

----------------------------------------------------------------------------
(* The deployment helper: deploy.py is run once on a machine, and each     *)
(* step of its main is one step of the run.                                *)

\* the machines: interpreter versions around 3.8, and what pip, the
\* environment, mkdir, the self-test and the launch of streamlit do.
\* launch is "ok" (the application ran and ended), "interrupt" (it ran and
\* was stopped with Ctrl-C), "nonzero" (the process ended at once with a
\* non-zero return code) or "raise" (subprocess.run raised)
Machines ==
    [version : {<<2, 7>>, <<3, 7>>, <<3, 8>>, <<3, 12>>, <<4, 0>>},
     pip : {"ok", "fail", "raise"}, key : BOOLEAN, mkdir : {"ok", "raise"},
     tests : {"pass", "fail", "raise"},
     launch : {"ok", "interrupt", "nonzero", "raise"}]

InitDeploy ==
    /\ api_key = FALSE
    /\ enable_caching = TRUE
    /\ clock = 0
    /\ ticks = 0
    /\ cache_files = NoFiles
    /\ managers = [m \in Managers |-> CacheManager(ManagerArgs[m])]
    /\ cm_log = CmLog("init", 0, << >>, << >>, PyNone, PyNone)
    /\ cm_puts = NoPuts
    /\ RagUnused
    /\ AppUnused
    /\ dp_calls = 0
    /\ tmp_files = {}
    /\ dp_log = NoProcessCall
    /\ dep_env \in Machines
    /\ dep = DeployStart
    /\ ProcUnused
    /\ tabs = NoTabs

\* the script is at step k of the list
AtStep(k) == ~dep.exited /\ dep.pc = k

DeployCheckPythonVersion ==
    /\ AtStep(1)
    /\ dep' = MainAfterStep(dep, CheckPythonVersion(dep_env.version), dep.dirs)
    /\ UNCHANGED <<api_key, cache_vars, rag_vars, app_vars, dp_calls,
                   tmp_files, dp_log, dep_env, proc_vars, tabs>>

DeployInstallDependencies ==
    /\ AtStep(2)
    /\ dep' = MainAfterStep(dep, InstallDependencies(dep_env.pip), dep.dirs)
    /\ UNCHANGED <<api_key, cache_vars, rag_vars, app_vars, dp_calls,
                   tmp_files, dp_log, dep_env, proc_vars, tabs>>

DeploySetupEnvironment ==
    /\ AtStep(3)
    /\ dep' = MainAfterStep(dep, SetupEnvironment(dep_env.key), dep.dirs)
    /\ UNCHANGED <<api_key, cache_vars, rag_vars, app_vars, dp_calls,
                   tmp_files, dp_log, dep_env, proc_vars, tabs>>

DeployCreateDirectories ==
    /\ AtStep(4)
    /\ \E r \in {CreateDirectories(dep.dirs, dep_env.mkdir)} :
            dep' = MainAfterStep(dep, r.ret, r.dirs)
    /\ UNCHANGED <<api_key, cache_vars, rag_vars, app_vars, dp_calls,
                   tmp_files, dp_log, dep_env, proc_vars, tabs>>

DeployRunTests ==
    /\ AtStep(5)
    /\ dep' = MainAfterStep(dep, RunTests(dep_env.tests), dep.dirs)
    /\ UNCHANGED <<api_key, cache_vars, rag_vars, app_vars, dp_calls,
                   tmp_files, dp_log, dep_env, proc_vars, tabs>>

DeployStartApp ==
    /\ AtStep(6)
    /\ dep' = MainStartApp(dep, dep_env.launch)
    /\ UNCHANGED <<api_key, cache_vars, rag_vars, app_vars, dp_calls,
                   tmp_files, dp_log, dep_env, proc_vars, tabs>>

NextDeploy ==
    \/ DeployCheckPythonVersion
    \/ DeployInstallDependencies
    \/ DeploySetupEnvironment
    \/ DeployCreateDirectories
    \/ DeployRunTests
    \/ DeployStartApp

SpecDeploy == InitDeploy /\ [][NextDeploy]_vars

----------------------------------------------------------------------------
(* A process of the repository from its start: `streamlit run app.py`     *)
(* loads app.py and runs main() for the first browser session, and        *)
(* `python sqlite_fix.py` loads sqlite_fix.py as the main module.         *)

\* the versions of the platform's engine: around the required 3.35.0,
\* with one-digit and two-digit minor versions
SqliteVersions ==
    {<<3, minor, patch>> : minor \in {6, 7, 9, 22, 34, 35, 36, 40},
                           patch \in {0, 1, 17}}

Platforms ==
    [entry : {"app", "sqlite_fix"}, sqlite_version : SqliteVersions,
     pysqlite3 : BOOLEAN]

InitProc ==
    /\ api_key \in BOOLEAN
    /\ enable_caching = TRUE
    /\ clock = 0
    /\ ticks = 0
    /\ cache_files = NoFiles
    /\ managers = [m \in Managers |-> CacheManager(ManagerArgs[m])]
    /\ cm_log = CmLog("init", 0, << >>, << >>, PyNone, PyNone)
    /\ cm_puts = NoPuts
    /\ RagUnused
    /\ env \in [emb_ok : BOOLEAN, store_ok : {TRUE}, llm_ok : {TRUE},
                login_ok : BOOLEAN]
    /\ ss = NewSessionState
    /\ uploader = << >>
    /\ screen = "none"
    /\ rerun_pending = FALSE
    /\ run_log = NoRun
    /\ dp_calls = 0
    /\ tmp_files = {}
    /\ dp_log = NoProcessCall
    /\ dep_env = GoodMachine
    /\ dep = DeployStart
    /\ proc_env \in Platforms
    /\ proc = ProcStart
    /\ tabs = NoTabs

\* the interpreter loads the entry module: its imports and the statements
\* at its top level
ProcLoadModules ==
    /\ proc.pc = "start"
    /\ proc' = LoadModules(proc, proc_env)
    /\ UNCHANGED <<api_key, cache_vars, rag_vars, app_vars, dp_calls,
                   tmp_files, dp_log, dep_env, dep, proc_env, tabs>>

\* the first run of main() (app.py:376-418), for the page load of a new
\* browser session
ProcFirstMain ==
    /\ proc.pc = "main"
    /\ \E r \in {Main(env, api_key, services, vs, rag, collection, managers,
                      cache_files, clock, enable_caching, NewSessionState,
                      << >>, Event("load", << >>, << >>, "ok", "ok", "raise"))} :
            /\ api_key' = r.api_key
            /\ services' = r.services
            /\ vs' = r.vs
            /\ rag' = r.rag
            /\ collection' = r.collection
            /\ cache_files' = r.cache_files
            /\ ss' = r.ss
            /\ uploader' = << >>
            /\ screen' = r.screen
            /\ rerun_pending' = r.rerun
            /\ q_log' = r.q_log
            /\ run_log' = r.run_log
            /\ proc' = AfterFirstMain(
                        proc, services = "none" /\ r.services = "built", r.vs)
    /\ UNCHANGED <<env, enable_caching, clock, ticks, managers, cm_log,
                   cm_puts, vs_log, dp_calls, tmp_files, dp_log, dep_env, dep,
                   proc_env, tabs>>

NextProc ==
    \/ ProcLoadModules
    \/ ProcFirstMain

SpecProc == InitProc /\ [][NextProc]_vars

----------------------------------------------------------------------------
(* The application: one browser session at a time runs the script.  Each  *)
(* widget event starts one run of main(); a run that ends in st.rerun()    *)
(* is followed at once by another.  A page load starts a new browser       *)
(* session: the session state and the uploader are new, while the cached   *)
(* services, the collection, the cache files and the key set in config     *)
(* stay.                                                                   *)

\* two files named a.txt with different contents, and a PDF whose reader
\* raises
FileA1 == [name |-> NameA, size |-> 5, fails |-> "none", chunks |-> 1]

FileA2 == [name |-> NameA, size |-> 7, fails |-> "none", chunks |-> 1]

FileB == [name |-> NameB, size |-> 5, fails |-> "load", chunks |-> 0]

\* what the user can have selected in the uploader
Batches ==
    {<< >>, <<FileA1>>, <<FileA2>>, <<FileB>>, <<FileA1, FileA2>>,
     <<FileA1, FileB>>, <<FileB, FileA1>>, <<FileB, FileA2>>}

AppQuestions == {<<"q">>}

AddOutcomes(n) == [1..n -> {"ok", "raise"}]

\* how many of the files are new to the session
NumNew(state, uploaded_files) ==
    Len(NewFiles(InitializeSessionState(state, env), uploaded_files))

InitApp ==
    /\ api_key \in BOOLEAN
    /\ enable_caching \in BOOLEAN
    /\ clock = 0
    /\ ticks = 0
    /\ cache_files = NoFiles
    /\ managers = [m \in Managers |-> CacheManager(ManagerArgs[m])]
    /\ cm_log = CmLog("init", 0, << >>, << >>, PyNone, PyNone)
    /\ cm_puts = NoPuts
    /\ services = "none"
    /\ vs = VectorStoreService(FALSE, FALSE, FALSE)
    /\ rag = RAGChain(FALSE, FALSE, 0)
    /\ collection \in {<< >>, ChunkedDocs(NameA, Lower(PathSuffix(NameA)), 1)}
    /\ q_log = NoQuery
    /\ vs_log = NoStoreCall
    /\ env \in [emb_ok : BOOLEAN, store_ok : BOOLEAN, llm_ok : BOOLEAN,
                login_ok : BOOLEAN]
    /\ ss = NewSessionState
    /\ uploader = << >>
    /\ screen = "none"
    /\ rerun_pending = FALSE
    /\ run_log = NoRun
    /\ ToolsUnused

\* one run of the script, started by event ev in a session whose state is
\* state and whose uploader holds uploaded_files
Run(ev, state, uploaded_files) ==
    \E r \in {Main(env, api_key, services, vs, rag, collection, managers,
                 cache_files, clock, enable_caching, state, uploaded_files, ev)} :
        /\ Len(r.collection) <= MaxChunks
        /\ Cardinality(QueryFiles(r.cache_files)) <= MaxQueryFiles
        /\ Len(r.ss.messages) <= MaxMessages
        /\ api_key' = r.api_key
        /\ services' = r.services
        /\ vs' = r.vs
        /\ rag' = r.rag
        /\ collection' = r.collection
        /\ cache_files' = r.cache_files
        /\ ss' = r.ss
        /\ uploader' = uploaded_files
        /\ screen' = r.screen
        /\ rerun_pending' = r.rerun
        /\ q_log' = r.q_log
        /\ run_log' = r.run_log
        /\ UNCHANGED <<env, enable_caching, clock, ticks, managers, cm_log,
                       cm_puts, vs_log, tool_vars>>

\* the browser loads the page
PageLoad ==
    /\ ~rerun_pending
    /\ Run(Event("load", << >>, << >>, "ok", "ok", "raise"), NewSessionState,
           << >>)

\* the run that follows st.rerun()
Rerun(adds) ==
    /\ rerun_pending
    /\ Run(Event("rerun", << >>, adds, "ok", "ok", "raise"), ss, uploader)

\* the user types a key into the text input of the setup screen
EnterApiKey ==
    /\ ~rerun_pending
    /\ screen = "setup"
    /\ Run(Event("api_key", << >>, << >>, "ok", "ok", "raise"), ss, uploader)

\* the user changes the selection of the file uploader
Upload(batch, adds) ==
    /\ ~rerun_pending
    /\ screen = "app"
    /\ batch # uploader
    /\ Run(Event("upload", << >>, adds, "ok", "ok", "raise"), ss, batch)

ClickClearDocuments(adds, clear) ==
    /\ ~rerun_pending
    /\ screen = "app"
    /\ Run(Event("clear_documents", << >>, adds, clear, "ok", "raise"), ss,
           uploader)

ClickClearCache(adds) ==
    /\ ~rerun_pending
    /\ screen = "app"
    /\ Run(Event("clear_cache", << >>, adds, "ok", "ok", "raise"), ss, uploader)

Chat(prompt, adds, retrieval, generation) ==
    /\ ~rerun_pending
    /\ screen = "app"
    /\ Run(Event("chat", prompt, adds, "ok", retrieval, generation), ss,
           uploader)

Next ==
    \/ PageLoad
    \/ \E adds \in AddOutcomes(NumNew(ss, uploader)) : Rerun(adds)
    \/ EnterApiKey
    \/ \E batch \in Batches : \E adds \in AddOutcomes(NumNew(ss, batch)) :
            Upload(batch, adds)
    \/ \E adds \in AddOutcomes(NumNew(ss, uploader)), clear \in ClearOutcomes :
            ClickClearDocuments(adds, clear)
    \/ \E adds \in AddOutcomes(NumNew(ss, uploader)) : ClickClearCache(adds)
    \/ \E prompt \in AppQuestions, adds \in AddOutcomes(NumNew(ss, uploader)),
          retrieval \in {"ok", "raise"}, generation \in Answers \cup {"raise"} :
            Chat(prompt, adds, retrieval, generation)

Spec == InitApp /\ [][Next]_vars

----------------------------------------------------------------------------
(* Several browser sessions on one process.  Each session has its own     *)
(* st.session_state and uploader, and its script runs in a thread of its  *)
(* own; initialize_services() is under st.cache_resource, so all sessions *)
(* use the same vector store, collection, chain and cache manager.  The   *)
(* script of a session waits where it calls a remote service: in the      *)
(* embedding call of add_documents (vector_store.py:117), in the          *)
(* embedding call of the similarity search (vector_store.py:147) and in   *)
(* the generation call (rag_chain.py:130); after the loop over the new    *)
(* files it sleeps (time.sleep(1), app.py:285) before st.rerun().  What a *)
(* run does between two of these waits is one step; while it waits the    *)
(* other sessions run.                                                    *)
(* q_log holds the log of the query call that returned in the last step,  *)
(* if one did; run_log is not kept.                                        *)

Sessions == {1, 2}

\* a browser session: its session state, the files its uploader holds,
\* what its last run rendered, whether that run ended in st.rerun(), and
\* in pending the call its running script waits in, if any
Tab(state, uploaded_files, shown, rerun, pending) ==
    [ss |-> state, uploader |-> uploaded_files, screen |-> shown,
     rerun_pending |-> rerun, pending |-> pending]

\* a session that has not run the script yet
NewTab == Tab(NewSessionState, << >>, "none", FALSE, << >>)

\* the call a script waits in.  kind "add": add_documents for the i-th of
\* new_files; "search": the similarity search of the question prompt, the
\* key lookups having been looked up; "llm": the generation call, the
\* search having returned docs_with_scores; "sleep": time.sleep(1) at the
\* end of process_uploaded_files (app.py:285).  stale tells that the Chroma
\* object the call was made on had its collection deleted since
\* (vector_store.py:183): what is left of the call raises.
Pending(kind, prompt, lookups, docs_with_scores, new_files, i) ==
    [kind |-> kind, prompt |-> prompt, lookups |-> lookups,
     docs_with_scores |-> docs_with_scores, new_files |-> new_files, i |-> i,
     stale |-> FALSE]

\* a session whose running script is in a call on the vector store when
\* another script's clear_collection deletes the collection
Stale(tab) ==
    IF tab.pending # << >> /\ tab.pending[1].kind \in {"add", "search"}
    THEN [tab EXCEPT !.pending = <<[@[1] EXCEPT !.stale = TRUE]>>]
    ELSE tab

SharedBatches == {<< >>, <<FileA1>>}

InitShared ==
    /\ api_key = TRUE
    /\ enable_caching = TRUE
    /\ clock = 0
    /\ ticks = 0
    /\ cache_files = NoFiles
    /\ managers = [m \in Managers |-> CacheManager(ManagerArgs[m])]
    /\ cm_log = CmLog("init", 0, << >>, << >>, PyNone, PyNone)
    /\ cm_puts = NoPuts
    /\ services = "none"
    /\ vs = VectorStoreService(FALSE, FALSE, FALSE)
    /\ rag = RAGChain(FALSE, FALSE, 0)
    /\ collection \in {<< >>, ChunkedDocs(NameA, Lower(PathSuffix(NameA)), 1)}
    /\ q_log = NoQuery
    /\ vs_log = NoStoreCall
    /\ AppUnused
    /\ dp_calls = 0
    /\ tmp_files = {}
    /\ dp_log = NoProcessCall
    /\ dep_env = GoodMachine
    /\ dep = DeployStart
    /\ ProcUnused
    /\ tabs = [s \in Sessions |-> NewTab]

\* what a run of the script of session s leaves, but for the session
SharedAfterRun(r) ==
    /\ Len(r.collection) <= MaxChunks
    /\ Cardinality(QueryFiles(r.cache_files)) <= MaxQueryFiles
    /\ Len(r.ss.messages) <= MaxMessages
    /\ api_key' = r.api_key
    /\ services' = r.services
    /\ vs' = r.vs
    /\ rag' = r.rag
    /\ collection' = r.collection
    /\ cache_files' = r.cache_files
    /\ UNCHANGED <<enable_caching, clock, ticks, managers, cm_log, cm_puts,
                   vs_log, env, ss, uploader, screen, rerun_pending, run_log,
                   dp_calls, tmp_files, dp_log, dep_env, dep, proc_vars>>

\* the run main() would make in session s on event ev
SharedMain(s, ev, uploaded_files) ==
    Main(env, api_key, services, vs, rag, collection, managers, cache_files,
         clock, enable_caching, tabs[s].ss, uploaded_files, ev)

\* main() as far as its call of display_sidebar (app.py:379-398): what a
\* run does that finds no file in the uploader and no event
MainBeforeSidebar(s) ==
    SharedMain(s, Event("load", << >>, << >>, "ok", "ok", "raise"), << >>)

\* a whole run of the script of session s that calls neither
\* add_documents nor the similarity search.  A clear_collection that
\* deleted the collection reaches the calls the other scripts wait in.
SharedRun(s, ev, uploaded_files) ==
    /\ tabs[s].pending = << >>
    /\ \E r \in {SharedMain(s, ev, uploaded_files)} :
        /\ r.q_log.searches = 0
        /\ \A i \in DOMAIN r.run_log.uploads : ~r.run_log.uploads[i].add_called
        /\ SharedAfterRun(r)
        /\ q_log' = r.q_log
        /\ tabs' = [t \in Sessions |->
                IF t = s
                THEN Tab(r.ss, uploaded_files, r.screen, r.rerun, << >>)
                ELSE IF r.run_log.clear # << >> /\ r.run_log.clear[1].ret
                THEN Stale(tabs[t])
                ELSE tabs[t]]

\* the loop of process_uploaded_files (app.py:269-282) from the i-th new
\* file up to the next call of add_documents -> [ss, i]: a file whose
\* documents are empty is passed without a call
RECURSIVE AdvanceUploads(_, _, _, _, _)
AdvanceUploads(state, store, coll, new_files, i) ==
    IF i > Len(new_files) THEN [ss |-> state, i |-> i]
    ELSE IF Truthy(ProcessUploadedFile(new_files[i]))
    THEN [ss |-> state, i |-> i]
    ELSE AdvanceUploads(HandleNewFile(state, store, coll, new_files[i], "ok").ss,
                        store, coll, new_files, i + 1)

\* the session whose loop over new_files is at the i-th file: waiting in
\* add_documents, or past the last file, in time.sleep(1) (app.py:285)
UploadingTab(state, uploaded_files, new_files, i) ==
    IF i > Len(new_files)
    THEN Tab(state, uploaded_files, "app", FALSE,
             <<Pending("sleep", << >>, << >>, << >>, << >>, 0)>>)
    ELSE Tab(state, uploaded_files, "app", FALSE,
             <<Pending("add", << >>, << >>, << >>, new_files, i)>>)

\* a run of the script of session s that finds new files in the
\* uploader: main() up to the first call of add_documents.
\* check_existing_documents has read the chunk count (app.py:398).
SharedUploadsBegin(s, uploaded_files) ==
    /\ tabs[s].pending = << >>
    /\ \E r0 \in {MainBeforeSidebar(s)} :
        /\ r0.screen = "app"
        /\ NewFiles(r0.ss, uploaded_files) # << >>
        /\ \E adv \in {AdvanceUploads(r0.ss, r0.vs, r0.collection,
                                      NewFiles(r0.ss, uploaded_files), 1)} :
            /\ SharedAfterRun(r0)
            /\ q_log' = NoQuery
            /\ tabs' = [tabs EXCEPT ![s] =
                    UploadingTab(adv.ss, uploaded_files,
                                 NewFiles(r0.ss, uploaded_files), adv.i)]

\* the embeddings arrive: add_documents writes to the collection as it is
\* now and returns, the session fields are written (app.py:277-280) and
\* the loop goes on to the next call of add_documents or to the sleep
SharedAddEnd(s, outcome) ==
    /\ tabs[s].pending # << >>
    /\ tabs[s].pending[1].kind = "add"
    /\ \E p \in {tabs[s].pending[1]} :
       \E r \in {HandleNewFile(tabs[s].ss, vs, collection, p.new_files[p.i],
                               IF p.stale THEN "raise" ELSE outcome)} :
       \E adv \in {AdvanceUploads(r.ss, vs, r.collection, p.new_files,
                                  p.i + 1)} :
        /\ Len(r.collection) <= MaxChunks
        /\ collection' = r.collection
        /\ q_log' = NoQuery
        /\ tabs' = [tabs EXCEPT ![s] =
                UploadingTab(adv.ss, tabs[s].uploader, p.new_files, adv.i)]
        /\ UNCHANGED <<api_key, cache_vars, services, vs, rag, vs_log,
                       app_vars, dp_calls, tmp_files, dp_log, dep_env, dep,
                       proc_vars>>

\* time.sleep(1) returns: the script calls st.rerun() (app.py:286-290) and
\* ends
SharedSleepEnd(s) ==
    /\ tabs[s].pending # << >>
    /\ tabs[s].pending[1].kind = "sleep"
    /\ q_log' = NoQuery
    /\ tabs' = [tabs EXCEPT ![s] =
            Tab(tabs[s].ss, tabs[s].uploader, "app", TRUE, << >>)]
    /\ UNCHANGED <<api_key, cache_vars, services, vs, collection, rag,
                   vs_log, app_vars, dp_calls, tmp_files, dp_log, dep_env,
                   dep, proc_vars>>

SharedPageLoad(s) ==
    /\ tabs[s].screen = "none"
    /\ SharedRun(s, Event("load", << >>, << >>, "ok", "ok", "raise"), << >>)

\* the run that follows st.rerun()
SharedRerun(s, adds) ==
    /\ tabs[s].rerun_pending
    /\ \/ SharedRun(s, Event("rerun", << >>, adds, "ok", "ok", "raise"),
                    tabs[s].uploader)
       \/ SharedUploadsBegin(s, tabs[s].uploader)

\* the user changes the selection of the file uploader
SharedUpload(s, batch, adds) ==
    /\ ~tabs[s].rerun_pending
    /\ tabs[s].screen = "app"
    /\ batch # tabs[s].uploader
    /\ \/ SharedRun(s, Event("upload", << >>, adds, "ok", "ok", "raise"), batch)
       \/ SharedUploadsBegin(s, batch)

SharedClickClearDocuments(s, adds, clear) ==
    /\ ~tabs[s].rerun_pending
    /\ tabs[s].screen = "app"
    /\ SharedRun(s, Event("clear_documents", << >>, adds, clear, "ok", "raise"),
                 tabs[s].uploader)

\* a question whose run does not reach the similarity search
SharedChat(s, prompt, adds) ==
    /\ ~tabs[s].rerun_pending
    /\ tabs[s].screen = "app"
    /\ SharedRun(s, Event("chat", prompt, adds, "ok", "raise", "raise"),
                 tabs[s].uploader)

\* a question whose run reaches the similarity search (rag_chain.py:107):
\* the run up to there.  The user message is in the list (app.py:320) and
\* the key was looked up (rag_chain.py:99-103).
SharedChatBegin(s, prompt, adds) ==
    /\ ~tabs[s].rerun_pending
    /\ tabs[s].screen = "app"
    /\ tabs[s].pending = << >>
    /\ \E r \in {SharedMain(s, Event("chat", prompt, adds, "ok", "raise",
                                     "raise"), tabs[s].uploader)} :
       \E got \in {CachedResult(r.rag, managers, cache_files, clock,
                                enable_caching, prompt,
                                QueryDocHash(r.vs, collection))} :
        /\ r.q_log.searches = 1
        /\ SharedAfterRun([r EXCEPT !.cache_files = got.files])
        /\ q_log' = NoQuery
        /\ tabs' = [tabs EXCEPT ![s] =
                Tab([r.ss EXCEPT !.messages =
                        Append(r.run_log.chat[1].before,
                               ChatMessages(prompt, r.q_log.result)[1])],
                    tabs[s].uploader, "app", FALSE,
                    <<Pending("search", prompt, r.q_log.lookups, << >>,
                              << >>, 0)>>)]

\* the embedding of the question arrives: the search is made on the
\* collection as it is now.  With no chunk found the rest of query and
\* the assistant message (app.py:330-337) follow, else the script goes on
\* to the generation call.
SharedSearchEnd(s, retrieval) ==
    /\ tabs[s].pending # << >>
    /\ tabs[s].pending[1].kind = "search"
    /\ \E p \in {tabs[s].pending[1]} :
       \E rt \in {IF p.stale THEN "raise" ELSE retrieval} :
       \E r \in {QuerySearched(rag, vs, collection, managers, cache_files,
                               clock, enable_caching, p.prompt, p.lookups, rt,
                               "raise")} :
        /\ Cardinality(QueryFiles(r.files)) <= MaxQueryFiles
        /\ IF r.log.llm_calls = 0
           THEN /\ cache_files' = r.files
                /\ q_log' = r.log
                /\ tabs' = [tabs EXCEPT ![s] =
                        Tab([tabs[s].ss EXCEPT !.messages =
                                Append(@, ChatMessages(p.prompt,
                                                       r.log.result)[2])],
                            tabs[s].uploader, "app", FALSE, << >>)]
           ELSE /\ cache_files' = cache_files
                /\ q_log' = NoQuery
                /\ tabs' = [tabs EXCEPT ![s] =
                        Tab(tabs[s].ss, tabs[s].uploader, "app", FALSE,
                            <<Pending("llm", p.prompt, p.lookups,
                                      SimilaritySearchWithScore(
                                        vs, collection, TOP_K_RETRIEVAL, rt),
                                      << >>, 0)>>)]
        /\ UNCHANGED <<api_key, enable_caching, clock, ticks, managers, cm_log,
                       cm_puts, services, vs, collection, rag, vs_log,
                       app_vars, dp_calls, tmp_files, dp_log, dep_env, dep,
                       proc_vars>>

\* the answer arrives: the rest of query, on the vector store as it is
\* now, and the assistant message (app.py:330-337)
SharedChatEnd(s, generation) ==
    /\ tabs[s].pending # << >>
    /\ tabs[s].pending[1].kind = "llm"
    /\ \E p \in {tabs[s].pending[1]} :
       \E r \in {QueryAnswered(rag, vs, collection, managers, cache_files,
                               clock, enable_caching, p.prompt,
                               p.docs_with_scores, p.lookups, generation)} :
        /\ Cardinality(QueryFiles(r.files)) <= MaxQueryFiles
        /\ cache_files' = r.files
        /\ q_log' = r.log
        /\ tabs' = [tabs EXCEPT ![s] =
                Tab([tabs[s].ss EXCEPT !.messages =
                        Append(@, ChatMessages(p.prompt, r.log.result)[2])],
                    tabs[s].uploader, "app", FALSE, << >>)]
        /\ UNCHANGED <<api_key, enable_caching, clock, ticks, managers, cm_log,
                       cm_puts, services, vs, collection, rag, vs_log,
                       app_vars, dp_calls, tmp_files, dp_log, dep_env, dep,
                       proc_vars>>

NextShared ==
    \E s \in Sessions :
        \/ SharedPageLoad(s)
        \/ \E adds \in AddOutcomes(NumNew(tabs[s].ss, tabs[s].uploader)) :
                SharedRerun(s, adds)
        \/ \E batch \in SharedBatches :
           \E adds \in AddOutcomes(NumNew(tabs[s].ss, batch)) :
                SharedUpload(s, batch, adds)
        \/ \E outcome \in {"ok", "raise"} : SharedAddEnd(s, outcome)
        \/ SharedSleepEnd(s)
        \/ \E adds \in AddOutcomes(NumNew(tabs[s].ss, tabs[s].uploader)),
              clear \in ClearOutcomes :
                SharedClickClearDocuments(s, adds, clear)
        \/ \E prompt \in AppQuestions,
              adds \in AddOutcomes(NumNew(tabs[s].ss, tabs[s].uploader)) :
                \/ SharedChat(s, prompt, adds)
                \/ SharedChatBegin(s, prompt, adds)
        \/ \E retrieval \in {"ok", "raise"} : SharedSearchEnd(s, retrieval)
        \/ \E generation \in Answers \cup {"raise"} :
                SharedChatEnd(s, generation)

SpecShared == InitShared /\ [][NextShared]_vars

----------------------------------------------------------------------------
(* Claims about the RAG chain *)

\* the file of manager m's query-cache entry for (query, doc_hash)
QueryPathOf(m, query, doc_hash) ==
    GetCachePath(managers[m], "query",
                 GenerateCacheKey(QueryKeyText(query, doc_hash)))

\* a call rag_chain.query(q), whatever its boundary calls do
QueryCall(q) ==
    \E retrieval \in {"ok", "raise"}, generation \in Answers \cup {"raise"} :
        RagQuery(q, retrieval, generation)

\* the chain and its vector store are both initialized
ChainReady == rag.chain /\ VsIsInitialized(vs)

\* the chain's cache manager holds an entry for (q, str(chunk count))
\* younger than the TTL
FreshEntry(q) ==
    /\ rag.cache_manager # 0
    /\ LET p == QueryPathOf(rag.cache_manager, q, Str(Len(collection)))
       IN  p \in DOMAIN cache_files /\ clock - cache_files[p].mtime < CACHE_TTL

\* C1: a query on a chain built while no API key was configured, or whose
\* vector store is not initialized, returns the fixed "System not properly
\* initialized" result with no sources and the error flag set, and makes
\* no cache lookup, no similarity search, no LLM call and no cache write.
C1_UninitializedQueryFixedResultNoCalls ==
    [][\A q \in Questions :
        ((~rag.chain \/ ~VsIsInitialized(vs)) /\ QueryCall(q)) =>
            /\ q_log'.result =
                 [answer |-> "System not properly initialized. Please check your API key and try again.",
                  sources |-> << >>, error |-> TRUE]
            /\ q_log'.lookups = << >>
            /\ q_log'.searches = 0
            /\ q_log'.llm_calls = 0
            /\ q_log'.writes = << >>
            /\ cache_files' = cache_files]_vars

\* C1 witness: the services were built with no API key, none has been
\* supplied since, and a question was asked and got the fixed result
C1_Witness ==
    /\ ~api_key
    /\ services = "built"
    /\ ~rag.chain
    /\ q_log.question \in Questions
    /\ q_log.result = NotInitializedResult
    /\ q_log.searches = 0

----------------------------------------------------------------------------
(* Claims about the cache manager *)

FilesOf(m, files) ==
    {p \in DOMAIN files : p[2] = managers[m].user_session_id}

KeptIn(paths) ==
    \A p \in paths : p \in DOMAIN cache_files' /\ cache_files'[p] = cache_files[p]

ValuesPutThrough(m) == CacheValues(m) \cup EmbeddingValues(m)

\* C8 as stated: of two managers constructed with different session
\* identifiers, a get on one never returns a value put through the other,
\* and no operation of one removes or changes an entry of the other.
C8_DifferentIdentifiersIsolated ==
    [][\A a \in Managers : cm_log'.mgr = a =>
        /\ (cm_log'.op \in {"get_cached_embedding", "get_cached_query"}
                /\ cm_log'.ret # PyNone)
            => cm_log'.ret \in ValuesPutThrough(a)
        /\ \A b \in Managers :
                ManagerArgs[a] # ManagerArgs[b] => KeptIn(FilesOf(b, cache_files))]_vars

\* C8 amended: the same for two managers whose identifiers differ after
\* the constructor's defaulting, which replaces an absent or empty
\* identifier by "default".
C8_DifferentEffectiveIdentifiersIsolated ==
    [][\A a \in Managers : cm_log'.mgr = a =>
        /\ (cm_log'.op \in {"get_cached_embedding", "get_cached_query"}
                /\ cm_log'.ret # PyNone)
            => \E b \in Managers :
                    /\ managers[b].user_session_id = managers[a].user_session_id
                    /\ cm_log'.ret \in ValuesPutThrough(b)
        /\ \A b \in Managers :
                managers[a].user_session_id # managers[b].user_session_id
                    => KeptIn(FilesOf(b, cache_files))]_vars

\* C8 witness: the application's manager reads a question and fingerprint
\* for which the default manager holds an entry, and gets None
C8_Witness ==
    /\ enable_caching
    /\ cm_log.op = "get_cached_query"
    /\ cm_log.mgr = 3
    /\ cm_log.ret = PyNone
    /\ QueryPathOf(1, cm_log.text, cm_log.doc_hash) \in DOMAIN cache_files

----------------------------------------------------------------------------
(* Claims about the application.  Every step of Spec is one run of main(). *)

\* C2 as stated: in every run of main() that starts with no API key
\* configured the setup screen is rendered and the run stops there: no
\* service object is constructed, the collection and the cache are not
\* touched, no file is handled and no question is put to the chain.  A
\* run in which initialize_session_state raises (app.py:153, 136) renders
\* no setup screen.
C2_NoKeySetupScreenNoServices ==
    [][~api_key =>
        /\ screen' = "setup"
        /\ services = "none" /\ services' = "none"
        /\ vs' = vs /\ rag' = rag
        /\ collection' = collection
        /\ cache_files' = cache_files
        /\ run_log'.uploads = << >>
        /\ q_log' = NoQuery]_vars

\* C9 as stated: no file is passed to the document processor while its
\* name is in the session's uploaded-file list, in batches with several
\* files of one name too.  The entries of run_log.uploads are the files
\* the run passed to the processor, each with the list as it was then.
C9_KnownNameIsSkipped ==
    \A i \in DOMAIN run_log.uploads :
        ~InSeq(run_log.uploads[i].file.name,
               run_log.uploads[i].before.uploaded_files)

\* C10: for each new file of a batch, the name is appended, the counter
\* grows by the number of chunks and the session is marked ready when the
\* processor returned chunks and add_documents returned True; otherwise
\* the three fields are left as they were; each file starts from the
\* fields the file before it left, and every new file of the batch is
\* handled.
C10_PerFileSessionUpdate ==
    /\ \A i \in DOMAIN run_log.uploads :
         LET entry == run_log.uploads[i]
             returned == /\ entry.documents.kind = "list"
                         /\ entry.documents.items # << >>
         IN  /\ IF returned /\ entry.add_called /\ entry.add_ret
                THEN /\ entry.after.uploaded_files =
                            Append(entry.before.uploaded_files, entry.file.name)
                     /\ entry.after.documents_processed =
                            entry.before.documents_processed
                                + Len(entry.documents.items)
                     /\ entry.after.vector_store_ready
                ELSE entry.after = entry.before
             /\ i > 1 => entry.before = run_log.uploads[i - 1].after
    /\ screen = "app" =>
         [i \in DOMAIN run_log.uploads |-> run_log.uploads[i].file]
            = SelectSeq(uploader,
                        LAMBDA f : ~InSeq(f.name, run_log.uploaded_before))

\* C10 witness: in a batch of two new files add_documents failed for the
\* first, which left the fields alone, and the second was stored
C10_Witness ==
    /\ Len(run_log.uploads) = 2
    /\ run_log.uploads[1].add_called
    /\ ~run_log.uploads[1].add_ret
    /\ run_log.uploads[1].after = run_log.uploads[1].before
    /\ run_log.uploads[2].add_ret
    /\ Len(ss.uploaded_files) = Len(run_log.uploaded_before) + 1

----------------------------------------------------------------------------
(* Claims about the vector store *)

\* C11: after clear_collection has returned True on a collection that held
\* one or more chunks, and until add_documents next returns True,
\* get_collection_info reports document count 0 and
\* check_existing_documents returns False.
C11_ClearedReportsEmptyUntilAdd ==
    vs_log.cleared =>
        /\ DocumentCount(vs, collection) = 0
        /\ ~CheckExistingDocumentsRet(vs, collection)
        /\ vs_log.op = "get_collection_info" => vs_log.ret.document_count = 0
        /\ vs_log.op = "check_existing_documents" => vs_log.ret = FALSE

\* C11 witness: the session was marked ready by a probe that found chunks,
\* the collection was cleared, and the probe made after that returned False
C11_Witness ==
    /\ vs_log.cleared
    /\ ss.vector_store_ready
    /\ vs_log.op = "check_existing_documents"
    /\ vs_log.ret = FALSE

----------------------------------------------------------------------------
(* Claims about the application's buttons and chat *)

\* C12: when a run handles the "Clear Documents" button and
\* clear_collection returns True, the chunk counter is 0, the
\* uploaded-file list is empty and the readiness flag is False afterwards
\* and the message list is as before; when clear_collection returns False
\* the counter, the list and the flag are as before.
C12_ClearDocumentsResetsOnSuccessOnly ==
    \A i \in DOMAIN run_log.clear :
        LET entry == run_log.clear[i]
        IN  IF entry.ret
            THEN /\ entry.after.documents_processed = 0
                 /\ entry.after.uploaded_files = << >>
                 /\ entry.after.vector_store_ready = FALSE
                 /\ entry.after.messages = entry.before.messages
            ELSE /\ entry.after.documents_processed =
                        entry.before.documents_processed
                 /\ entry.after.uploaded_files = entry.before.uploaded_files
                 /\ entry.after.vector_store_ready =
                        entry.before.vector_store_ready

\* C12 witness: the button was clicked in a session with a file, chunks
\* and messages, and clear_collection succeeded
C12_Witness ==
    /\ run_log.trigger = "clear_documents"
    /\ Len(run_log.clear) = 1
    /\ run_log.clear[1].ret
    /\ run_log.clear[1].before.uploaded_files # << >>
    /\ run_log.clear[1].before.documents_processed > 0
    /\ run_log.clear[1].before.messages # << >>
    /\ ss.uploaded_files = << >>
    /\ ss.messages # << >>

\* C13: a question submitted while the session's readiness flag is False
\* is not passed to rag_chain.query, and no message is appended for it, an
\* assistant message in particular.
C13_NotReadyQuestionNotQueried ==
    \A i \in DOMAIN run_log.chat :
        ~run_log.chat[i].ready =>
            /\ ~run_log.chat[i].queried
            /\ q_log.question = << >>
            /\ q_log.searches = 0 /\ q_log.llm_calls = 0
            /\ \A j \in DOMAIN run_log.chat[i].after :
                    j > Len(run_log.chat[i].before) =>
                        run_log.chat[i].after[j].role # "assistant"

\* C13 witness: a question was submitted in the application screen of a
\* session that is not ready
C13_Witness ==
    /\ screen = "app"
    /\ run_log.trigger = "chat"
    /\ Len(run_log.chat) = 1
    /\ run_log.chat[1].prompt \in AppQuestions
    /\ ~run_log.chat[1].ready
    /\ ~ss.vector_store_ready

\* C14 as stated: every question handle_chat_input receives is appended
\* to the message list as a user message, when the session is ready and
\* when the question is rejected because it is not.
C14_EveryQuestionAppended ==
    \A i \in DOMAIN run_log.chat :
        LET entry == run_log.chat[i]
        IN  /\ Len(entry.after) > Len(entry.before)
            /\ entry.after[Len(entry.before) + 1] =
                 [role |-> "user", content |-> entry.prompt]

----------------------------------------------------------------------------
(* Claims about the document processor *)

\* the temporary file of the last call
TmpOfLastCall == [id |-> dp_log.tmp, suffix |-> dp_log.did.suffix]

\* C15: process_uploaded_file returns None for every file of more than
\* MAX_FILE_SIZE_MB * 1024 * 1024 bytes, and for such a file makes no
\* temporary file and invokes no reader and no splitter; a file of exactly
\* that many bytes passes the size check and goes on to the temporary
\* file.
C15_OversizeRejectedBeforeAnyWork ==
    /\ dp_log.file.size > 10 * 1024 * 1024 =>
         /\ dp_log.did.ret = PyNone
         /\ ~dp_log.did.tmp_created
         /\ tmp_files = {f \in tmp_files : f.id # dp_log.tmp}
         /\ dp_log.did.reader = "none"
         /\ ~dp_log.did.splitter
    /\ (dp_calls > 0 /\ dp_log.file.size <= 10 * 1024 * 1024) =>
         dp_log.did.tmp_created

\* C15 witness: a text file that would have been chunked is rejected for
\* being one byte over the limit
C15_Witness ==
    /\ dp_log.file.name = NameA
    /\ dp_log.file.size = 10 * 1024 * 1024 + 1
    /\ dp_log.file.fails = "none"
    /\ dp_log.file.chunks = 1
    /\ dp_log.did.ret = PyNone

\* C16: process_uploaded_file returns None for every file whose extension,
\* lower-cased, is not .pdf, .docx, .txt or .md, and invokes no reader and
\* no splitter for it; a file with a supported extension in upper case is
\* given to the reader of its lower-case form.
C16_UnsupportedTypeRejectedCaseInsensitive ==
    LET ext == Lower(PathSuffix(dp_log.file.name))
        loaded == dp_log.did.tmp_created /\ ~dp_log.did.tmp_left
    IN  /\ (dp_calls > 0 /\ ext \notin {<<".", "p", "d", "f">>,
                                       <<".", "d", "o", "c", "x">>,
                                       <<".", "t", "x", "t">>,
                                       <<".", "m", "d">>}) =>
              /\ dp_log.did.ret = PyNone
              /\ dp_log.did.reader = "none"
              /\ ~dp_log.did.splitter
        /\ (loaded /\ ext = <<".", "p", "d", "f">>) =>
              dp_log.did.reader = "pdf_reader"
        /\ (loaded /\ ext = <<".", "d", "o", "c", "x">>) =>
              dp_log.did.reader = "docx_reader"
        /\ (loaded /\ ext \in {<<".", "t", "x", "t">>, <<".", "m", "d">>}) =>
              dp_log.did.reader = "open"
        /\ (loaded /\ dp_log.file.name = NameMd /\ dp_log.file.fails = "none") =>
              /\ dp_log.did.ret.kind = "list"
              /\ Len(dp_log.did.ret.items) = dp_log.file.chunks

\* C16 witness: a small file named c.exe whose handling meets no failure
\* is written to its temporary file and rejected
C16_Witness ==
    /\ dp_log.file.name = NameExe
    /\ dp_log.file.size = 5
    /\ dp_log.file.fails = "none"
    /\ dp_log.did.tmp_created
    /\ dp_log.did.ret = PyNone

\* C17 as stated: whenever process_uploaded_file returns, the temporary
\* file it created is gone, on every path after the file's creation, a
\* failure of the write into it included.
C17_TemporaryFileAlwaysRemoved ==
    dp_log.did.tmp_created => TmpOfLastCall \notin tmp_files

----------------------------------------------------------------------------
(* Claims about the sources of a result *)

\* the sources of the last result follow what the search returned: they
\* are as many as the (chunk, score) pairs and in their order; the content
\* of the i-th source is the chunk's text when that has at most 200
\* characters, and its first 200 characters followed by "..." when it has
\* more; its chunk_id is the chunk_id of the chunk's metadata, or the
\* position i, counted from 0, when the metadata has none
SourcesFollowPairs ==
        LET pairs == SimilaritySearchWithScore(vs, collection, 5, "ok")
            sources == q_log.result.sources
        IN  /\ Len(sources) = Len(pairs)
            /\ Len(pairs) = q_log.retrieved
            /\ \A i \in 1..Len(pairs) :
                LET text == pairs[i].doc.page_content
                    meta == pairs[i].doc.metadata
                IN  /\ sources[i].relevance_score = pairs[i].score
                    /\ Len(text) <= 200 => sources[i].content = text
                    /\ Len(text) > 200 =>
                         sources[i].content =
                            SubSeq(text, 1, 200) \o <<".", ".", ".">>
                    /\ sources[i].chunk_id =
                         IF "chunk_id" \in DOMAIN meta THEN meta.chunk_id
                         ELSE i - 1

\* C18 as stated: whenever the search of a query returned one or more
\* (chunk, score) pairs, the sources of the result follow them, in
\* length, order, content and chunk_id.
C18_SourcesFollowRetrieval ==
    (q_log.searches = 1 /\ q_log.retrieved > 0) => SourcesFollowPairs

\* C18 amended: when the search of a query returned one or more (chunk,
\* score) pairs and the answer was generated, the sources of the result
\* follow them, in length, order, content and chunk_id; when the
\* generation raised, the result is the error result, with no sources.
C18_SourcesFollowRetrievalWhenAnswered ==
    (q_log.searches = 1 /\ q_log.retrieved > 0) =>
        /\ q_log.failed = "none" => SourcesFollowPairs
        /\ q_log.failed # "none" =>
                /\ q_log.failed = "generation"
                /\ q_log.result = ErrorResult
                /\ q_log.result.sources = << >>

\* C18 witness: three chunks were retrieved, the first of 201 characters,
\* the second of exactly 200 and without a chunk_id, the third short
C18_Witness ==
    /\ q_log.searches = 1
    /\ q_log.retrieved = 3
    /\ q_log.failed = "none"
    /\ Len(collection[1].page_content) = 201
    /\ Len(collection[2].page_content) = 200
    /\ Len(collection[3].page_content) = 3
    /\ Len(q_log.result.sources) = 3
    /\ Len(q_log.result.sources[1].content) = 203
    /\ q_log.result.sources[2].chunk_id = 1

----------------------------------------------------------------------------
(* Claims about the deployment helper *)

\* C19: the steps run in the order interpreter version, dependency
\* install, API-key check, directory creation, self-test; the first step
\* that does not succeed is the last one run, the application is not
\* launched and the script exits with status 1; the application is
\* launched only after all five steps have succeeded.
C19_StepsInOrderAbortAtFirstFailure ==
    /\ Len(dep.ran) <= 5
    /\ Len(dep.results) = Len(dep.ran)
    /\ \A i \in DOMAIN dep.ran :
         dep.ran[i] = <<"Python Version", "Dependencies", "Environment",
                        "Directories", "Tests">>[i]
    /\ \A i \in DOMAIN dep.results :
         dep.results[i] # "true" =>
            /\ i = Len(dep.results)
            /\ dep.launched = 0
            /\ dep.exited
            /\ dep.status = 1
    /\ dep.launched > 0 =>
         /\ Len(dep.results) = 5
         /\ \A i \in 1..5 : dep.results[i] = "true"
    /\ \A i \in DOMAIN dep.results :
         dep.results[i] =
            (CASE i = 1 -> IF dep_env.version[1] > 3
                              \/ (dep_env.version[1] = 3 /\ dep_env.version[2] >= 8)
                           THEN "true" ELSE "false"
               [] i = 2 -> IF dep_env.pip = "ok" THEN "true"
                           ELSE IF dep_env.pip = "fail" THEN "false" ELSE "raise"
               [] i = 3 -> IF dep_env.key THEN "true" ELSE "false"
               [] i = 4 -> IF dep_env.mkdir = "ok" THEN "true" ELSE "raise"
               [] OTHER -> IF dep_env.tests = "pass" THEN "true" ELSE "false")

\* C19 witness: with no API key in the environment the script stopped at
\* the third step with status 1, no directory made, nothing launched
C19_Witness ==
    /\ ~dep_env.key
    /\ dep.exited
    /\ dep.status = 1
    /\ Len(dep.ran) = 3
    /\ dep.dirs = {}
    /\ dep.launched = 0

\* C20 as stated: the script exits with status 0 only if every step
\* succeeded and the launch of the application began successfully; when
\* the launch fails to start the status is not 0.
C20_ExitZeroOnlyIfLaunchStarted ==
    /\ (dep.exited /\ dep.status = 0) =>
         /\ Len(dep.results) = 5
         /\ \A i \in 1..5 : dep.results[i] = "true"
         /\ dep_env.launch \in {"ok", "interrupt"}
    /\ (dep.exited /\ dep.launched > 0
            /\ dep_env.launch \in {"nonzero", "raise"}) => dep.status # 0

----------------------------------------------------------------------------
(* Claims about the SQLite compatibility check *)

\* C21: in every run of the web application process the SQLite
\* compatibility check runs exactly once, and it runs before the vector
\* store service opens or creates its persistent storage client: when the
\* first run of main() is over, fix_sqlite was called once, and it had
\* been called once when the Chroma client was constructed.
C21_SqliteCheckOnceBeforeStorage ==
    (proc_env.entry = "app" /\ proc.pc = "served") =>
        /\ proc.fix_calls = 1
        /\ proc.storage_opens > 0 => proc.fixes_before_open = 1

\* v below w as versions: the components compared as numbers, the major
\* one first
NumericBelow(v, w) ==
    \/ v[1] < w[1]
    \/ v[1] = w[1] /\ v[2] < w[2]
    \/ v[1] = w[1] /\ v[2] = w[2] /\ v[3] < w[3]

\* C22: fix_sqlite attempts to substitute the bundled implementation
\* exactly when the platform's engine is below 3.35.0 under numeric
\* comparison of major, minor and patch; at or above 3.35.0 it
\* substitutes nothing and reports the engine as compatible (returns
\* True).
C22_SubstitutesExactlyWhenBelowRequired ==
    proc.fix_calls > 0 =>
        /\ proc.fix_log.attempted
              <=> NumericBelow(proc_env.sqlite_version, <<3, 35, 0>>)
        /\ ~NumericBelow(proc_env.sqlite_version, <<3, 35, 0>>) =>
              /\ ~proc.fix_log.patched
              /\ proc.sqlite3 = "system"
              /\ proc.fix_log.ret

----------------------------------------------------------------------------
(* Claims about failed calls and the query cache *)

\* C27: query writes a query-cache entry only in a call whose retrieval
\* call and, if reached, generation call completed without failure: a
\* call in which a boundary call failed, or which returns a result with
\* the error flag set, leaves no file in the cache that was not there,
\* with that content, before the call.
C27_FailedCallLeavesCacheUnchanged ==
    [][\A q \in Questions :
        (ChainReady /\ q_log'.question = q
            /\ (q_log'.failed # "none" \/ q_log'.result.error)
            /\ QueryCall(q)) =>
            \A p \in DOMAIN cache_files' :
                p \in DOMAIN cache_files /\ cache_files'[p] = cache_files[p]]_vars

----------------------------------------------------------------------------
(* Claims about reruns *)

\* C25: after a successful "Clear Documents" the collection stays empty
\* and the uploaded-file list stays empty across the rerun the action
\* triggers and the reruns that follow, until the user selects a new file;
\* the files the uploader held when the button was clicked are not
\* ingested again.  Stated for the rerun that the action triggers: the run
\* that follows a run in which clear_collection returned True leaves the
\* collection and the list empty.
C25_ClearedStaysEmptyAcrossReruns ==
    [][(/\ run_log.clear # << >>
        /\ run_log.clear[1].ret
        /\ rerun_pending
        /\ run_log'.trigger = "rerun") =>
            /\ collection' = << >>
            /\ ss'.uploaded_files = << >>]_vars

\* the run that follows st.rerun() in the present state, add_documents
\* doing adds
RerunFromHere(adds) ==
    Main(env, api_key, services, vs, rag, collection, managers, cache_files,
         clock, enable_caching, ss, uploader,
         Event("rerun", << >>, adds, "ok", "ok", "raise"))

\* C24: the chain of automatic reruns started by upload handling ends:
\* with the uploader still holding the batch, a run is reached in which
\* upload handling requests no rerun and processes no file again, also
\* when a file of the batch was rejected or could not be stored.  Stated
\* as what a finite run refutes: no state is reached in which a rerun is
\* pending and the run that follows, whatever add_documents does, passes
\* files through upload handling, requests a rerun again and leaves the
\* session, the collection, the services and the cache as they are; from
\* such a state every run is followed by the same run, for ever.
C24_RerunChainTerminates ==
    rerun_pending =>
        \E adds \in AddOutcomes(NumNew(ss, uploader)) :
            \E r \in {RerunFromHere(adds)} :
                ~(/\ r.rerun
                  /\ r.run_log.uploads # << >>
                  /\ r.ss = ss
                  /\ r.collection = collection
                  /\ r.vs = vs
                  /\ r.rag = rag
                  /\ r.services = services
                  /\ r.cache_files = cache_files
                  /\ r.api_key = api_key)

----------------------------------------------------------------------------
(* Claims about browser sessions that share the process *)

\* C23: in every query call that writes a cache entry, the (question,
\* chunk-count fingerprint) key it writes under is the key it looked up at
\* the start of that call, under every interleaving of uploads, "Clear
\* Documents" and queries of the sessions that share the vector store and
\* the cache manager.
C23_WriteKeyIsLookupKey ==
    (q_log.lookups # << >> /\ q_log.writes # << >>) =>
        q_log.writes[1] = q_log.lookups[1]

\* C26: at the end of every interaction, in every browser session, a
\* readiness flag that is true implies the shared collection holds at
\* least one chunk, and a name in the session's uploaded-file list implies
\* chunks of that file are in the collection, also when one of several
\* sessions performs "Clear Documents".
C26_ReadyAndListedImplyStored ==
    \A s \in Sessions :
        (tabs[s].screen = "app" /\ tabs[s].pending = << >>
            /\ ~tabs[s].rerun_pending) =>
            /\ tabs[s].ss.vector_store_ready => Len(collection) > 0
            /\ \A i \in DOMAIN tabs[s].ss.uploaded_files :
                 \E j \in DOMAIN collection :
                    collection[j].metadata.source_file
                        = tabs[s].ss.uploaded_files[i]

====
